---- MODULE Spec2Model ----
(***************************************************************************)
(* A model of the in-memory entity stores of vienna-live-mcp and of the    *)
(* tool handlers that read and write them:                                 *)
(*   portmanteaus/expenses_manager.py  MOCK_EXPENSES, MOCK_BUDGETS         *)
(*   portmanteaus/planning_manager.py  MOCK_TODOS, MOCK_GOALS, MOCK_HABITS *)
(*   portmanteaus/shopping_manager.py  MOCK_SHOPPING_LISTS                 *)
(* and of server.py: the launch of the process and the two core tools.     *)
(*                                                                         *)
(* A Python dict is a function from its keys (strings) to values, so       *)
(* DOMAIN d is the set of keys present; a Python list is a sequence.       *)
(* Strings are TLA+ strings.  TLC cannot index a string, so CHARS gives,   *)
(* for each string whose characters the handlers look at (str.lower, the   *)
(* <= of two date strings), its characters; everything computed from the   *)
(* characters is computed as Python does.  Amounts are whole numbers (the  *)
(* handlers only add, compare and scale them).                             *)
(***************************************************************************)
EXTENDS Integers, Sequences, FiniteSets, TLC

VARIABLES
    MOCK_EXPENSES,  \* expenses_manager.MOCK_EXPENSES: list of expense dicts
    MOCK_BUDGETS,   \* expenses_manager.MOCK_BUDGETS: dict, as its items <<key, budget>> in insertion order
    MOCK_TODOS,     \* planning_manager.MOCK_TODOS: list of todo dicts
    MOCK_GOALS,     \* planning_manager.MOCK_GOALS: list of goal dicts
    MOCK_HABITS,    \* planning_manager.MOCK_HABITS: list of habit dicts
    MOCK_SHOPPING_LISTS, \* shopping_manager.MOCK_SHOPPING_LISTS: dict, as its items <<key, list>>
    now,            \* the wall clock datetime.now() reads, in hours after EPOCH_HOUR
    call,           \* the tool call served last: [op |-> name, ...arguments]
    ret,            \* what that call returned
    server,         \* the server process: how it was launched and how far it got
    tasks           \* the tool invocations dispatched to the event loop

vars == <<MOCK_EXPENSES, MOCK_BUDGETS, MOCK_TODOS, MOCK_GOALS, MOCK_HABITS,
          MOCK_SHOPPING_LISTS, now, call, ret, server, tasks>>

expense_store == <<MOCK_EXPENSES, MOCK_BUDGETS>>
planning_store == <<MOCK_TODOS, MOCK_GOALS, MOCK_HABITS>>
shopping_store == <<MOCK_SHOPPING_LISTS>>
process_state == <<server, tasks>>

----------------------------------------------------------------------------
(* Bounds of the model.                                                    *)

MaxExpenses == 2
MaxTodos == 3
MaxHabits == 2
MaxStreak == 3
MaxBudgets == 2
MaxClock == 1
MaxRecords == 2

----------------------------------------------------------------------------
(* Python values.                                                          *)

\* None, where a string is expected (no string of the model spells it).
None == "<None>"

\* bool(x) of an Optional[str]: None and "" are falsy.
Truthy(x) == x # None /\ x # ""

\* d[k] = v on a dict d: adds the key or overwrites it.
SetKey(d, k, v) == (k :> v) @@ d

\* The empty dict.
EmptyDict == [f \in {} |-> None]

\* The process before it is launched: nothing imported, no app, no transport.
NotLaunched ==
    [phase |-> "off", mode |-> None, transport |-> None, db_fails |-> FALSE,
     module |-> None, line |-> 0, modules |-> <<>>, apps |-> <<>>, invoked |-> <<>>,
     bound |-> {}, log |-> <<>>]

\* The characters of the strings the handlers look into.
CHARS(s) ==
    CASE s = "" -> <<>>
      [] s = "Food" -> <<"F", "o", "o", "d">>
      [] s = "food" -> <<"f", "o", "o", "d">>
      [] s = "FOOD" -> <<"F", "O", "O", "D">>
      [] s = "Food_x" -> <<"F", "o", "o", "d", "_", "x">>
      [] s = "Bills" -> <<"B", "i", "l", "l", "s">>
      [] s = "Work" -> <<"W", "o", "r", "k">>
      [] s = "work" -> <<"w", "o", "r", "k">>
      [] s = "WORK" -> <<"W", "O", "R", "K">>
      [] s = "Home" -> <<"H", "o", "m", "e">>
      [] s = "high" -> <<"h", "i", "g", "h">>
      [] s = "HIGH" -> <<"H", "I", "G", "H">>
      [] s = "medium" -> <<"m", "e", "d", "i", "u", "m">>
      [] s = "low" -> <<"l", "o", "w">>
      [] s = "pending" -> <<"p", "e", "n", "d", "i", "n", "g">>
      [] s = "PENDING" -> <<"P", "E", "N", "D", "I", "N", "G">>
      [] s = "completed" -> <<"c", "o", "m", "p", "l", "e", "t", "e", "d">>
      [] s = "monthly" -> <<"m", "o", "n", "t", "h", "l", "y">>
      [] s = "MONTHLY" -> <<"M", "O", "N", "T", "H", "L", "Y">>
      [] s = "x_monthly" -> <<"x", "_", "m", "o", "n", "t", "h", "l", "y">>
      [] s = "weekly" -> <<"w", "e", "e", "k", "l", "y">>
      [] s = "2025-01-09" -> <<"2", "0", "2", "5", "-", "0", "1", "-", "0", "9">>
      [] s = "2025-01-10" -> <<"2", "0", "2", "5", "-", "0", "1", "-", "1", "0">>
      [] s = "2025-01-15" -> <<"2", "0", "2", "5", "-", "0", "1", "-", "1", "5">>
      [] s = "2025-01-16" -> <<"2", "0", "2", "5", "-", "0", "1", "-", "1", "6">>
      [] s = "2025-01-20" -> <<"2", "0", "2", "5", "-", "0", "1", "-", "2", "0">>
      [] s = "2025-02-01" -> <<"2", "0", "2", "5", "-", "0", "2", "-", "0", "1">>
      [] s = "spar" -> <<"s", "p", "a", "r">>
      [] s = "Spar" -> <<"S", "p", "a", "r">>
      [] s = "SPAR" -> <<"S", "P", "A", "R">>
      [] s = "billa" -> <<"b", "i", "l", "l", "a">>
      [] s = "Billa" -> <<"B", "i", "l", "l", "a">>
      [] s = "hofer" -> <<"h", "o", "f", "e", "r">>
      [] s = "Hofer" -> <<"H", "o", "f", "e", "r">>
      [] s = "All items" -> <<"A", "l", "l", " ", "i", "t", "e", "m", "s">>
      [] s = "Fruits & Vegetables" -> <<"F", "r", "u", "i", "t", "s", " ", "&", " ", "V", "e", "g", "e", "t", "a", "b", "l", "e", "s">>
      [] s = "fruits" -> <<"f", "r", "u", "i", "t", "s">>
      [] s = "Meat" -> <<"M", "e", "a", "t">>
      [] s = "2025-01-08" -> <<"2", "0", "2", "5", "-", "0", "1", "-", "0", "8">>
      [] s = "2024-12-16" -> <<"2", "0", "2", "4", "-", "1", "2", "-", "1", "6">>
      [] s = "2024-10-17" -> <<"2", "0", "2", "4", "-", "1", "0", "-", "1", "7">>
      [] s = "2024-01-16" -> <<"2", "0", "2", "4", "-", "0", "1", "-", "1", "6">>
      [] s = "2024-12-17" -> <<"2", "0", "2", "4", "-", "1", "2", "-", "1", "7">>
      [] s = "2024-10-18" -> <<"2", "0", "2", "4", "-", "1", "0", "-", "1", "8">>
      [] s = "2024-01-17" -> <<"2", "0", "2", "4", "-", "0", "1", "-", "1", "7">>
      [] s = "2024-12-20" -> <<"2", "0", "2", "4", "-", "1", "2", "-", "2", "0">>
      [] s = "soon" -> <<"s", "o", "o", "n">>
      [] s = "2025-01-14" -> <<"2", "0", "2", "5", "-", "0", "1", "-", "1", "4">>
      [] s = "9999-99-99" -> <<"9", "9", "9", "9", "-", "9", "9", "-", "9", "9">>

\* The code points of the characters of the model's strings (ASCII).
UPPER ==
    <<"A", "B", "C", "D", "E", "F", "G", "H", "I", "J", "K", "L", "M",
      "N", "O", "P", "Q", "R", "S", "T", "U", "V", "W", "X", "Y", "Z">>

LOWER ==
    <<"a", "b", "c", "d", "e", "f", "g", "h", "i", "j", "k", "l", "m",
      "n", "o", "p", "q", "r", "s", "t", "u", "v", "w", "x", "y", "z">>

DIGITS == <<"0", "1", "2", "3", "4", "5", "6", "7", "8", "9">>

IndexOf(table, c) == CHOOSE i \in DOMAIN table : table[i] = c

ord(c) ==
    CASE c = "-" -> 45
      [] c = "_" -> 95
      [] c = " " -> 32
      [] c = "&" -> 38
      [] \E i \in DOMAIN DIGITS : DIGITS[i] = c -> 47 + IndexOf(DIGITS, c)
      [] \E i \in DOMAIN UPPER : UPPER[i] = c -> 64 + IndexOf(UPPER, c)
      [] \E i \in DOMAIN LOWER : LOWER[i] = c -> 96 + IndexOf(LOWER, c)

chr(n) ==
    CASE n = 45 -> "-"
      [] n = 95 -> "_"
      [] n = 32 -> " "
      [] n = 38 -> "&"
      [] n \in 48..57 -> DIGITS[n - 47]
      [] n \in 65..90 -> UPPER[n - 64]
      [] n \in 97..122 -> LOWER[n - 96]

\* str.lower() on the characters: A..Z (65..90) move up by 32.
lower(s) ==
    LET cs == CHARS(s)
    IN  [i \in DOMAIN cs |-> IF ord(cs[i]) \in 65..90 THEN chr(ord(cs[i]) + 32) ELSE cs[i]]

\* a == b of two lowered strings, as in  x.lower() == y.lower().
lower_eq(a, b) == lower(a) = lower(b)

\* a in b of two lowered strings, as in  x.lower() in y.lower(): a is a substring of b.
lower_in(a, b) ==
    LET ca == lower(a)
        cb == lower(b)
    IN  \E i \in 0..(Len(cb) - Len(ca)) : SubSeq(cb, i + 1, i + Len(ca)) = ca

\* a <= b of two Python strings: by code point at the first difference, a proper
\* prefix being the smaller.
str_le(a, b) ==
    LET ca == CHARS(a)
        cb == CHARS(b)
        common == {i \in DOMAIN ca \cap DOMAIN cb : ca[i] # cb[i]}
        first == CHOOSE i \in common : \A j \in common : i <= j
    IN  IF common = {} THEN Len(ca) <= Len(cb) ELSE ord(ca[first]) < ord(cb[first])

\* str(n) of a non-negative int.
RECURSIVE str(_)
str(n) == IF n < 10 THEN DIGITS[n + 1] ELSE str(n \div 10) \o DIGITS[(n % 10) + 1]

\* Two digits, zero padded (%d, %H of strftime).
two_digits(n) == DIGITS[(n \div 10) + 1] \o DIGITS[(n % 10) + 1]

----------------------------------------------------------------------------
(* The clock.  datetime.now() is EPOCH_HOUR h on 2025-01-EPOCH_DAY    *)
(* plus `now` hours; midnight falls inside the modelled range.             *)

EPOCH_DAY == 15
EPOCH_HOUR == 23

\* datetime.now().strftime("%Y-%m-%d")
strftime(t) == "2025-01-" \o two_digits(EPOCH_DAY + ((EPOCH_HOUR + t) \div 24))

\* datetime.now().isoformat()
isoformat(t) == strftime(t) \o "T" \o two_digits((EPOCH_HOUR + t) % 24) \o ":00:00"

\* Time passes between two tool calls.
Tick ==
    /\ now < MaxClock
    /\ now' = now + 1
    /\ UNCHANGED <<expense_store, planning_store, shopping_store, call, ret, process_state>>

----------------------------------------------------------------------------
(* Sequences.                                                              *)

\* next((x for x in s if x["id"] == id), None): the index of the first match, 0 for None.
first_with_id(s, id) ==
    IF \E i \in DOMAIN s : s[i]["id"] = id
    THEN CHOOSE i \in DOMAIN s : s[i]["id"] = id /\ \A j \in 1..(i - 1) : s[j]["id"] # id
    ELSE 0

\* A removal that drops the last element whatever the index.
RemoveAt_last(s, i) == SubSeq(s, 1, Len(s) - 1)

\* list.remove(x), x being the element at index i.  remove() drops the first element
\* equal to x; an element equal to x has x's id, and i is the first index with that id.
RemoveAt(s, i) == [j \in 1..(Len(s) - 1) |-> IF j < i THEN s[j] ELSE s[j + 1]]

\* sum(x["amount"] for x in s)
RECURSIVE sum_amount(_)
sum_amount(s) == IF s = <<>> THEN 0 ELSE Head(s)["amount"] + sum_amount(Tail(s))

\* sorted(s, key=...) / list.sort(key=...): Python's sort is stable, so the element
\* at index i lands after every element whose key is smaller and after the equal-keyed
\* elements that stood before it.  Less(a, b) is key(a) < key(b) (key(a) > key(b)
\* under reverse=True, which keeps equal-keyed elements in their original order).
StableSort(s, Less(_, _)) ==
    LET rank(i) == 1 + Cardinality({j \in DOMAIN s :
                        Less(s[j], s[i]) \/ (~Less(s[i], s[j]) /\ j < i)})
    IN  [k \in DOMAIN s |-> s[CHOOSE i \in DOMAIN s : rank(i) = k]]

\* s[:limit]: a negative limit counts from the end of the list.
slice_to(s, limit) ==
    LET stop == IF limit < 0 THEN Len(s) + limit ELSE limit
    IN  SubSeq(s, 1, IF stop < 0 THEN 0 ELSE IF stop < Len(s) THEN stop ELSE Len(s))

----------------------------------------------------------------------------
(* expenses_manager.py: the expense handlers.                              *)

\* {"error": message}
Error(message) == [error |-> message]

IsError(r) == DOMAIN r = {"error"}

\* add_expense: the id is "exp_" and the length of the list plus one.
next_expense_id == "exp_" \o str(Len(MOCK_EXPENSES) + 1)

add_expense(amount, description, category, date, store, payment_method) ==
    LET expense_date == IF Truthy(date) THEN date ELSE strftime(now)
        expense == [id |-> next_expense_id,
                    amount |-> amount,
                    description |-> description,
                    category |-> category,
                    date |-> expense_date,
                    store |-> store,
                    payment_method |-> payment_method,
                    created_at |-> isoformat(now)]
    IN  /\ MOCK_EXPENSES' = Append(MOCK_EXPENSES, expense)
        /\ ret' = [success |-> TRUE, expense |-> expense,
                   message |-> "Expense added successfully"]
        /\ call' = [op |-> "add_expense", amount |-> amount, category |-> category,
                    date |-> date]
        /\ UNCHANGED <<MOCK_BUDGETS, planning_store, shopping_store, now, process_state>>

\* An allow-list that lets an update write the id.
expense_allowed_fields_with_id ==
    {"id", "amount", "description", "category", "date", "store", "payment_method"}

\* update_expense: the fields an update may write.
expense_allowed_fields ==
    {"amount", "description", "category", "date", "store", "payment_method"}

\* for field, value in updates.items(): if field in allowed: record[field] = value
merge_allowed(record, updates, allowed) ==
    [f \in DOMAIN updates \cap allowed |-> updates[f]] @@ record

\* record["updated_at"] = datetime.now().isoformat()
touch(record) == SetKey(record, "updated_at", isoformat(now))

update_expense(expense_id, updates) ==
    LET i == first_with_id(MOCK_EXPENSES, expense_id)
        expense == touch(merge_allowed(MOCK_EXPENSES[i], updates, expense_allowed_fields))
    IN  /\ call' = [op |-> "update_expense", expense_id |-> expense_id, updates |-> updates]
        /\ IF i = 0
           THEN /\ ret' = Error("Expense " \o expense_id \o " not found")
                /\ UNCHANGED MOCK_EXPENSES
           ELSE /\ MOCK_EXPENSES' = [MOCK_EXPENSES EXCEPT ![i] = expense]
                /\ ret' = [success |-> TRUE, expense |-> expense,
                           message |-> "Expense " \o expense_id \o " updated successfully"]
        /\ UNCHANGED <<MOCK_BUDGETS, planning_store, shopping_store, now, process_state>>

\* A delete_expense that deletes whatever confirm says.
refused_never(confirm) == FALSE

\* delete_expense: "if not confirm" refuses the call.
refused(confirm) == ~confirm

delete_expense(expense_id, confirm) ==
    LET i == first_with_id(MOCK_EXPENSES, expense_id)
        expense == MOCK_EXPENSES[i]
    IN  /\ call' = [op |-> "delete_expense", expense_id |-> expense_id, confirm |-> confirm]
        /\ IF refused(confirm)
           THEN /\ ret' = Error("Deletion requires confirmation. Set confirm=true")
                /\ UNCHANGED MOCK_EXPENSES
           ELSE IF i = 0
           THEN /\ ret' = Error("Expense " \o expense_id \o " not found")
                /\ UNCHANGED MOCK_EXPENSES
           ELSE /\ MOCK_EXPENSES' = RemoveAt(MOCK_EXPENSES, i)
                /\ ret' = [success |-> TRUE,
                           message |-> "Expense " \o expense_id \o " deleted successfully",
                           deleted_expense |-> [id |-> expense_id,
                                                amount |-> expense["amount"],
                                                description |-> expense["description"]]]
        /\ UNCHANGED <<MOCK_BUDGETS, planning_store, shopping_store, now, process_state>>

\* exp["category"].lower() == category.lower()
category_matches(record, category) == lower_eq(record["category"], category)

\* The three optional filters of get_expenses_by_category, applied in its order.
filter_expenses(expenses, category, date_from, date_to) ==
    LET by_category(exp) == ~Truthy(category) \/ category_matches(exp, category)
        from_ok(exp) == ~Truthy(date_from) \/ str_le(date_from, exp["date"])
        to_ok(exp) == ~Truthy(date_to) \/ str_le(exp["date"], date_to)
    IN  SelectSeq(SelectSeq(SelectSeq(expenses, by_category), from_ok), to_ok)

\* The grouping loop: one pass, a group per distinct exp["category"] in the order the
\* categories are first met.  The dict category_totals is the sequence of its items,
\* <<key, value>>, in insertion order.
RECURSIVE category_totals(_, _)
category_totals(totals, expenses) ==
    IF expenses = <<>> THEN totals
    ELSE LET exp == Head(expenses)
             cat == exp["category"]
             item == [id |-> exp["id"], amount |-> exp["amount"],
                      description |-> exp["description"], date |-> exp["date"]]
             known == \E k \in DOMAIN totals : totals[k][1] = cat
             opened == IF known THEN totals
                       ELSE Append(totals, <<cat, [count |-> 0, total |-> 0, expenses |-> <<>>]>>)
             k == CHOOSE n \in DOMAIN opened : opened[n][1] = cat
             counted == [opened EXCEPT ![k][2] =
                            [count |-> @.count + 1,
                             total |-> @.total + exp["amount"],
                             expenses |-> Append(@.expenses, item)]]
         IN  category_totals(counted, Tail(expenses))

\* A sort by total that puts equal totals in the reverse of their insertion order.
sorted_by_total_ties_reversed(totals) ==
    LET rank(i) == 1 + Cardinality({j \in DOMAIN totals :
                            totals[j][2].total > totals[i][2].total
                            \/ (totals[j][2].total = totals[i][2].total /\ j > i)})
    IN  [k \in DOMAIN totals |-> totals[CHOOSE i \in DOMAIN totals : rank(i) = k]]

\* sorted(category_totals.items(), key=lambda x: x[1]["total"], reverse=True)
sorted_by_total(totals) ==
    LET more(a, b) == a[2].total > b[2].total
    IN  StableSort(totals, more)

get_expenses_by_category(category, date_from, date_to, group_by) ==
    \E filtered_expenses \in {filter_expenses(MOCK_EXPENSES, category, date_from, date_to)} :
    \E sorted_categories \in {sorted_by_total(category_totals(<<>>, filtered_expenses))} :
        /\ call' = [op |-> "get_expenses_by_category", category |-> category,
                    date_from |-> date_from, date_to |-> date_to]
        /\ ret' = [period |-> [from |-> IF Truthy(date_from) THEN date_from ELSE "all",
                               to |-> IF Truthy(date_to) THEN date_to ELSE "all"],
                   total_expenses |-> Len(filtered_expenses),
                   total_amount |-> sum_amount(filtered_expenses),
                   categories |-> sorted_categories,
                   top_category |-> IF sorted_categories # <<>>
                                    THEN sorted_categories[1][1] ELSE None]
        /\ UNCHANGED <<expense_store, planning_store, shopping_store, now, process_state>>

\* total_amount / len(...) if ... else 0, kept as the fraction it is.
average(total, n) == IF n > 0 THEN [num |-> total, den |-> n] ELSE [num |-> 0, den |-> 1]

\* An exclusive date range: an expense dated date_from or date_to is left out.
in_date_range_exclusive(exp, date_from, date_to) ==
    ~str_le(exp["date"], date_from) /\ ~str_le(date_to, exp["date"])

\* date_from <= exp["date"] <= date_to
in_date_range(exp, date_from, date_to) ==
    str_le(date_from, exp["date"]) /\ str_le(exp["date"], date_to)

\* The filters of get_expenses_by_date_range and its sort, newest date first.  An
\* Optional[float] is <<>> for None and <<v>> for v.
expenses_by_date_range(expenses, date_from, date_to, category, min_amount, max_amount) ==
    LET in_range(exp) == in_date_range(exp, date_from, date_to)
        by_category(exp) == ~Truthy(category) \/ category_matches(exp, category)
        min_ok(exp) == min_amount = <<>> \/ exp["amount"] >= min_amount[1]
        max_ok(exp) == max_amount = <<>> \/ exp["amount"] <= max_amount[1]
        newer(a, b) == ~str_le(a["date"], b["date"])
    IN  StableSort(SelectSeq(SelectSeq(SelectSeq(SelectSeq(
            expenses, in_range), by_category), min_ok), max_ok), newer)

get_expenses_by_date_range(date_from, date_to, category, min_amount, max_amount) ==
    \E filtered_expenses \in {expenses_by_date_range(MOCK_EXPENSES, date_from, date_to,
                                                     category, min_amount, max_amount)} :
    \E total_amount \in {sum_amount(filtered_expenses)} :
        /\ call' = [op |-> "get_expenses_by_date_range", date_from |-> date_from,
                    date_to |-> date_to, category |-> category,
                    min_amount |-> min_amount, max_amount |-> max_amount]
        /\ ret' = [period |-> [from |-> date_from, to |-> date_to],
                   count |-> Len(filtered_expenses),
                   total_amount |-> total_amount,
                   average_amount |-> average(total_amount, Len(filtered_expenses)),
                   expenses |-> filtered_expenses]
        /\ UNCHANGED <<expense_store, planning_store, shopping_store, now, process_state>>

\* export_expenses: the date filters first, the category filter last.
export_filter(expenses, date_from, date_to, category) ==
    LET from_ok(exp) == ~Truthy(date_from) \/ str_le(date_from, exp["date"])
        to_ok(exp) == ~Truthy(date_to) \/ str_le(exp["date"], date_to)
        by_category(exp) == ~Truthy(category) \/ category_matches(exp, category)
    IN  SelectSeq(SelectSeq(SelectSeq(expenses, from_ok), to_ok), by_category)

\* The summary's category breakdown: count and total per category, in first-met order.
export_categories(expenses) ==
    LET totals == category_totals(<<>>, expenses)
    IN  [k \in DOMAIN totals |->
            <<totals[k][1], [count |-> totals[k][2].count, total |-> totals[k][2].total]>>]

\* min(...) and max(...) of the dates, default None.
earliest_date(expenses) ==
    IF expenses = <<>> THEN None
    ELSE LET i == CHOOSE m \in DOMAIN expenses :
                    \A j \in DOMAIN expenses : str_le(expenses[m]["date"], expenses[j]["date"])
         IN  expenses[i]["date"]

latest_date(expenses) ==
    IF expenses = <<>> THEN None
    ELSE LET i == CHOOSE m \in DOMAIN expenses :
                    \A j \in DOMAIN expenses : str_le(expenses[j]["date"], expenses[m]["date"])
         IN  expenses[i]["date"]

\* The "summary" entry of the export.
export_summary(expenses) ==
    LET total_amount == sum_amount(expenses)
    IN  [total_amount |-> total_amount,
         average_amount |-> average(total_amount, Len(expenses)),
         categories |-> export_categories(expenses),
         date_range |-> [earliest |-> earliest_date(expenses),
                         latest |-> latest_date(expenses)]]

export_expenses(format, date_from, date_to, category, include_summary) ==
    \E filtered_expenses \in {export_filter(MOCK_EXPENSES, date_from, date_to, category)} :
        LET export_data == [metadata |-> [export_date |-> isoformat(now),
                                          format |-> format,
                                          total_expenses |-> Len(filtered_expenses),
                                          date_range |-> [from |-> date_from, to |-> date_to],
                                          filters |-> [category |-> category]],
                            expenses |-> filtered_expenses]
            summed == IF include_summary
                      THEN SetKey(export_data, "summary", export_summary(filtered_expenses))
                      ELSE export_data
            with_url ==
                CASE format = "csv" -> SetKey(summed, "download_url", "expenses_export.csv")
                  [] format = "pdf" -> SetKey(summed, "download_url", "expenses_report.pdf")
                  [] OTHER -> summed
        IN  /\ call' = [op |-> "export_expenses", format |-> format,
                        date_from |-> date_from, date_to |-> date_to,
                        category |-> category, include_summary |-> include_summary]
            /\ ret' = with_url
            /\ UNCHANGED <<expense_store, planning_store, shopping_store, now, process_state>>

----------------------------------------------------------------------------
(* expenses_manager.py: the budget handlers.  A dict that is iterated is    *)
(* the sequence of its items <<key, value>> in insertion order; assigning   *)
(* to a key that is present keeps the key's place.                          *)

\* k in d
HasKey(items, k) == \E n \in DOMAIN items : items[n][1] = k

\* d[k] = v
PutItem(items, k, v) ==
    IF HasKey(items, k)
    THEN [n \in DOMAIN items |-> IF items[n][1] = k THEN <<k, v>> ELSE items[n]]
    ELSE Append(items, <<k, v>>)

\* {k: v for k, v in d.items() if P(v)}
FilterItems(items, P(_)) == LET keep(item) == P(item[2]) IN SelectSeq(items, keep)

\* A budget key that differs on every call.
budget_key_fresh(category, period) ==
    category \o "_" \o period \o "_" \o str(Len(MOCK_BUDGETS) + 1)

\* f"{category}_{period}"
budget_key(category, period) == category \o "_" \o period

set_budget(category, amount, period, alert_threshold) ==
    LET key == budget_key(category, period)
        budget == [id |-> key,
                   category |-> category,
                   amount |-> amount,
                   period |-> period,
                   alert_threshold |-> alert_threshold,
                   created_at |-> isoformat(now),
                   spent_this_period |-> 0,
                   remaining |-> amount]
    IN  /\ MOCK_BUDGETS' = PutItem(MOCK_BUDGETS, key, budget)
        /\ ret' = [success |-> TRUE, budget |-> budget, message |-> "Budget set"]
        /\ call' = [op |-> "set_budget", category |-> category, amount |-> amount,
                    period |-> period, alert_threshold |-> alert_threshold]
        /\ UNCHANGED <<MOCK_EXPENSES, planning_store, shopping_store, now, process_state>>

\* v["period"] == period
period_matches(budget, period) == budget["period"] = period

\* The budgets get_budget_status selects: the category filter, then the period filter.
selected_budgets(items, category, period) ==
    LET by_category(b) == ~Truthy(category) \/ category_matches(b, category)
        by_period(b) == ~Truthy(period) \/ period_matches(b, period)
    IN  FilterItems(FilterItems(items, by_category), by_period)

\* a / b of two whole numbers whose quotient is whole (the amounts of the model are
\* multiples of 5, so amount * 0.6 and the percentage are exact).
quotient(a, b) == IF b > 0 THEN a \div b ELSE (0 - a) \div (0 - b)

\* budget["amount"] * 0.6
mock_spent(amount) == quotient(amount * 6, 10)

\* The first two assignments of the loop body, which cannot fail.
with_spending(budget) ==
    LET spent == mock_spent(budget["amount"])
    IN  SetKey(SetKey(budget, "spent_this_period", spent),
               "remaining", budget["amount"] - spent)

\* The rest of the loop body, for amount # 0: percentage_used and the alert.
with_percentage(budget) ==
    LET percentage_used == quotient(budget["spent_this_period"] * 100, budget["amount"])
        rated == SetKey(budget, "percentage_used", percentage_used)
    IN  IF percentage_used >= budget["alert_threshold"]
        THEN SetKey(rated, "alert",
                    [level |-> IF percentage_used < 100 THEN "warning" ELSE "danger",
                     message |-> "Budget " \o str(percentage_used) \o ".0% used"])
        ELSE rated

\* The loop over the selected budgets.  MOCK_BUDGETS.copy() and the dict comprehensions
\* copy the dict, not the budgets in it, so the loop writes to the stored budgets.  A
\* budget whose amount is 0 raises ZeroDivisionError at percentage_used, after its
\* first two assignments; the loop stops there.  Returns <<store, failed>>.
RECURSIVE rate_budgets(_, _)
rate_budgets(store, selected) ==
    IF selected = <<>> THEN <<store, FALSE>>
    ELSE LET key == Head(selected)[1]
             n == CHOOSE m \in DOMAIN store : store[m][1] = key
             spent == with_spending(store[n][2])
         IN  IF spent["amount"] = 0
             THEN <<[store EXCEPT ![n] = <<key, spent>>], TRUE>>
             ELSE rate_budgets([store EXCEPT ![n] = <<key, with_percentage(spent)>>],
                               Tail(selected))

\* sum(b["remaining"] for b in budgets.values())
RECURSIVE sum_field(_, _)
sum_field(budgets, field) ==
    IF budgets = <<>> THEN 0 ELSE Head(budgets)[field] + sum_field(Tail(budgets), field)

\* list(budgets.values()) of the selected budgets, as they are stored after the loop.
selected_values(store, selected) ==
    LET keys == {selected[n][1] : n \in DOMAIN selected}
        is_selected(item) == item[1] \in keys
        chosen == SelectSeq(store, is_selected)
    IN  [n \in DOMAIN chosen |-> chosen[n][2]]

\* The payload of get_budget_status.
budget_status(budgets) ==
    LET alerting(b) == "alert" \in DOMAIN b
    IN  [budgets |-> budgets,
         summary |-> [total_budgets |-> Len(budgets),
                      alerts |-> Len(SelectSeq(budgets, alerting)),
                      total_allocated |-> sum_field(budgets, "amount"),
                      total_remaining |-> sum_field(budgets, "remaining")]]

get_budget_status(category, period) ==
    \E selected \in {selected_budgets(MOCK_BUDGETS, category, period)} :
    \E rated \in {rate_budgets(MOCK_BUDGETS, selected)} :
        /\ call' = [op |-> "get_budget_status", category |-> category, period |-> period]
        /\ MOCK_BUDGETS' = rated[1]
        /\ ret' = IF rated[2]
                  THEN Error("float division by zero")
                  ELSE budget_status(selected_values(rated[1], selected))
        /\ UNCHANGED <<MOCK_EXPENSES, planning_store, shopping_store, now, process_state>>

----------------------------------------------------------------------------
(* planning_manager.py: the todo handlers.                                 *)

create_todo(title, description, category, priority, due_date, estimated_time) ==
    LET todo == [id |-> "todo_" \o str(Len(MOCK_TODOS) + 1),
                 title |-> title,
                 description |-> description,
                 category |-> category,
                 priority |-> priority,
                 due_date |-> due_date,
                 estimated_time |-> estimated_time,
                 status |-> "pending",
                 created_at |-> isoformat(now),
                 updated_at |-> isoformat(now)]
    IN  /\ MOCK_TODOS' = Append(MOCK_TODOS, todo)
        /\ ret' = [success |-> TRUE, todo |-> todo,
                   message |-> "Todo '" \o title \o "' created successfully"]
        /\ call' = [op |-> "create_todo", title |-> title, category |-> category,
                    priority |-> priority, due_date |-> due_date]
        /\ UNCHANGED <<expense_store, MOCK_GOALS, MOCK_HABITS, shopping_store, now, process_state>>

\* update_todo: the fields an update may write.
todo_allowed_fields ==
    {"title", "description", "category", "priority", "due_date", "estimated_time", "status"}

update_todo(todo_id, updates) ==
    LET i == first_with_id(MOCK_TODOS, todo_id)
        todo == touch(merge_allowed(MOCK_TODOS[i], updates, todo_allowed_fields))
    IN  /\ call' = [op |-> "update_todo", todo_id |-> todo_id, updates |-> updates]
        /\ IF i = 0
           THEN /\ ret' = Error("Todo " \o todo_id \o " not found")
                /\ UNCHANGED MOCK_TODOS
           ELSE /\ MOCK_TODOS' = [MOCK_TODOS EXCEPT ![i] = todo]
                /\ ret' = [success |-> TRUE, todo |-> todo,
                           message |-> "Todo " \o todo_id \o " updated successfully"]
        /\ UNCHANGED <<expense_store, MOCK_GOALS, MOCK_HABITS, shopping_store, now, process_state>>

\* priority_order.get(x["priority"], 3)
priority_order(priority) ==
    CASE priority = "high" -> 0
      [] priority = "medium" -> 1
      [] priority = "low" -> 2
      [] OTHER -> 3

\* A sort key without the "9999-99-99" default: a missing due date sorts first.
due_key_missing_first(todo) == IF Truthy(todo["due_date"]) THEN todo["due_date"] ELSE ""

\* x.get("due_date") or "9999-99-99"
due_key(todo) == IF Truthy(todo["due_date"]) THEN todo["due_date"] ELSE "9999-99-99"

\* key(a) < key(b) for the key (priority_order, due date): tuples compare item by item.
todo_key_less(a, b) ==
    \/ priority_order(a["priority"]) < priority_order(b["priority"])
    \/ /\ priority_order(a["priority"]) = priority_order(b["priority"])
       /\ ~str_le(due_key(b), due_key(a))

\* t["status"] == status
status_matches(todo, status) == todo["status"] = status

\* t["priority"] == priority
priority_matches(todo, priority) == todo["priority"] = priority

\* get_todos_by_category: filter, sort, cut to limit.
todos_by_category(todos, category, status, priority, limit) ==
    LET by_category(t) == ~Truthy(category) \/ category_matches(t, category)
        by_status(t) == status = "all" \/ status_matches(t, status)
        by_priority(t) == ~Truthy(priority) \/ priority_matches(t, priority)
        filtered_todos == SelectSeq(SelectSeq(SelectSeq(todos, by_category), by_status),
                                    by_priority)
    IN  slice_to(StableSort(filtered_todos, todo_key_less), limit)

get_todos_by_category(category, status, priority, limit) ==
    \E results \in {todos_by_category(MOCK_TODOS, category, status, priority, limit)} :
        /\ call' = [op |-> "get_todos_by_category", category |-> category,
                    status |-> status, priority |-> priority, limit |-> limit]
        /\ ret' = results
        /\ UNCHANGED <<expense_store, planning_store, shopping_store, now, process_state>>

\* A completion that reopens a todo that is already completed.
mark_completed_toggling(todo, completion_notes) ==
    touch(SetKey(SetKey(SetKey(todo,
        "status", IF todo["status"] = "completed" THEN "pending" ELSE "completed"),
        "completed_at", isoformat(now)),
        "completion_notes", completion_notes))

\* The four assignments of complete_todo to the todo it found.
mark_completed(todo, completion_notes) ==
    touch(SetKey(SetKey(SetKey(todo,
        "status", "completed"),
        "completed_at", isoformat(now)),
        "completion_notes", completion_notes))

complete_todo(todo_id, completion_notes) ==
    LET i == first_with_id(MOCK_TODOS, todo_id)
        todo == mark_completed(MOCK_TODOS[i], completion_notes)
    IN  /\ call' = [op |-> "complete_todo", todo_id |-> todo_id,
                    completion_notes |-> completion_notes]
        /\ IF i = 0
           THEN /\ ret' = Error("Todo " \o todo_id \o " not found")
                /\ UNCHANGED MOCK_TODOS
           ELSE /\ MOCK_TODOS' = [MOCK_TODOS EXCEPT ![i] = todo]
                /\ ret' = [success |-> TRUE, todo |-> todo,
                           message |-> "Todo '" \o todo["title"] \o "' marked as completed"]
        /\ UNCHANGED <<expense_store, MOCK_GOALS, MOCK_HABITS, shopping_store, now, process_state>>

\* The default of get_todos_by_category's limit.
DEFAULT_TODO_LIMIT == 20

----------------------------------------------------------------------------
(* planning_manager.py: the habit handlers.                                *)

create_habit(name, description, frequency, target_count, reminder_time) ==
    LET habit == [id |-> "habit_" \o str(Len(MOCK_HABITS) + 1),
                  name |-> name,
                  description |-> description,
                  frequency |-> frequency,
                  target_count |-> target_count,
                  reminder_time |-> reminder_time,
                  current_streak |-> 0,
                  best_streak |-> 0,
                  total_completions |-> 0,
                  status |-> "active",
                  created_at |-> isoformat(now)]
    IN  /\ MOCK_HABITS' = Append(MOCK_HABITS, habit)
        /\ ret' = [success |-> TRUE, habit |-> habit,
                   message |-> "Habit '" \o name \o "' created successfully"]
        /\ call' = [op |-> "create_habit", name |-> name, frequency |-> frequency]
        /\ UNCHANGED <<expense_store, MOCK_TODOS, MOCK_GOALS, shopping_store, now, process_state>>

\* A log_habit_completion that forgets the best streak.
raise_best_never(habit) == habit

\* if habit["current_streak"] > habit["best_streak"]: best_streak = current_streak
raise_best(habit) ==
    IF habit["current_streak"] > habit["best_streak"]
    THEN [habit EXCEPT !["best_streak"] = habit["current_streak"]]
    ELSE habit

\* The statistics log_habit_completion updates.
count_completion(habit) ==
    raise_best([habit EXCEPT !["total_completions"] = @ + 1, !["current_streak"] = @ + 1])

log_habit_completion(habit_id, date, notes) ==
    LET i == first_with_id(MOCK_HABITS, habit_id)
        completion_date == IF Truthy(date) THEN date ELSE strftime(now)
        habit == touch(SetKey(count_completion(MOCK_HABITS[i]),
                              "last_completed", completion_date))
    IN  /\ call' = [op |-> "log_habit_completion", habit_id |-> habit_id, date |-> date]
        /\ IF i = 0
           THEN /\ ret' = Error("Habit " \o habit_id \o " not found")
                /\ UNCHANGED MOCK_HABITS
           ELSE /\ MOCK_HABITS' = [MOCK_HABITS EXCEPT ![i] = habit]
                /\ ret' = [success |-> TRUE, habit |-> habit,
                           message |-> "Habit '" \o habit["name"]
                                       \o "' completion logged successfully"]
        /\ UNCHANGED <<expense_store, MOCK_TODOS, MOCK_GOALS, shopping_store, now, process_state>>

----------------------------------------------------------------------------
(* The state after import: every store empty.                              *)

Init ==
    /\ MOCK_EXPENSES = <<>>
    /\ MOCK_BUDGETS = <<>>
    /\ MOCK_TODOS = <<>>
    /\ MOCK_GOALS = <<>>
    /\ MOCK_HABITS = <<>>
    /\ MOCK_SHOPPING_LISTS = <<>>
    /\ now = 0
    /\ call = [op |-> "none"]
    /\ ret = EmptyDict
    /\ server = NotLaunched
    /\ tasks = <<>>

----------------------------------------------------------------------------
(* The expense store under add and delete.                                 *)

Amounts == {10, 25}
Categories == {"Food", "food", "Bills"}
Dates == {"2025-01-10", "2025-01-20"}
ExpenseIds == {"exp_" \o str(n) : n \in 1..(MaxExpenses + 1)}

AddExpense ==
    /\ Len(MOCK_EXPENSES) < MaxExpenses
    /\ \E amount \in Amounts, category \in {"Food", "Bills"}, date \in {None, "2025-01-10"} :
          add_expense(amount, "Groceries", category, date, None, None)

DeleteExpense ==
    \E expense_id \in ExpenseIds, confirm \in BOOLEAN :
        delete_expense(expense_id, confirm)

NextExpenseStore == AddExpense \/ DeleteExpense

SpecExpenseStore == Init /\ [][NextExpenseStore]_vars

----------------------------------------------------------------------------
(* Claims about the expense store.                                         *)

\* C1: no two expenses in the store share an id, after any sequence of add_expense
\* and delete_expense(confirm=true) calls.
ExpenseIdsUnique ==
    \A i, j \in DOMAIN MOCK_EXPENSES :
        i # j => MOCK_EXPENSES[i]["id"] # MOCK_EXPENSES[j]["id"]

\* C2: a delete_expense call without confirm=true returns the error shape and leaves
\* the expense store exactly as it was, whether or not the id is stored.
UnconfirmedDeleteChangesNothing ==
    [][\A expense_id \in ExpenseIds :
          delete_expense(expense_id, FALSE)
             => (MOCK_EXPENSES' = MOCK_EXPENSES /\ IsError(ret'))]_vars

\* C2 witness: an unconfirmed delete of a stored expense has been refused.
UnconfirmedDeleteOfStoredExpense ==
    /\ call.op = "delete_expense"
    /\ ~call.confirm
    /\ \E i \in DOMAIN MOCK_EXPENSES : MOCK_EXPENSES[i]["id"] = call.expense_id
    /\ IsError(ret)

----------------------------------------------------------------------------
(* The habit store under create_habit and log_habit_completion.            *)

HabitIds == {"habit_" \o str(n) : n \in 1..(MaxHabits + 1)}

CreateHabit ==
    /\ Len(MOCK_HABITS) < MaxHabits
    /\ \E name \in {"Run", "Read"} :
          create_habit(name, None, "daily", 1, None)

LogHabitCompletion ==
    \E habit_id \in HabitIds, date \in {None, "2025-01-10"} :
        /\ \A i \in DOMAIN MOCK_HABITS :
              MOCK_HABITS[i]["id"] = habit_id => MOCK_HABITS[i]["current_streak"] < MaxStreak
        /\ log_habit_completion(habit_id, date, None)

NextHabits == CreateHabit \/ LogHabitCompletion

SpecHabits == Init /\ [][NextHabits]_vars

\* C6: for every habit, best_streak >= current_streak, and both are >= 0.
BestStreakAtLeastCurrent ==
    \A i \in DOMAIN MOCK_HABITS :
        /\ MOCK_HABITS[i]["best_streak"] >= MOCK_HABITS[i]["current_streak"]
        /\ MOCK_HABITS[i]["current_streak"] >= 0
        /\ MOCK_HABITS[i]["best_streak"] >= 0

\* C6 witness: a completion has been logged for a habit whose streak is now 2 or more,
\* beside a habit that has none yet.
HabitStreakGrown ==
    /\ call.op = "log_habit_completion"
    /\ \E i, j \in DOMAIN MOCK_HABITS :
          /\ MOCK_HABITS[i]["id"] = call.habit_id
          /\ MOCK_HABITS[i]["current_streak"] >= 2
          /\ MOCK_HABITS[j]["current_streak"] = 0

----------------------------------------------------------------------------
(* The budget store under set_budget and get_budget_status.                *)

BudgetCategories == {"Food", "food", "Food_x"}
BudgetPeriods == {"monthly", "x_monthly"}

SetBudget ==
    \E category \in BudgetCategories, amount \in {200, 50}, period \in BudgetPeriods :
        /\ \/ HasKey(MOCK_BUDGETS, budget_key(category, period))
           \/ Len(MOCK_BUDGETS) < MaxBudgets
        /\ set_budget(category, amount, period, 80)

GetBudgetStatus ==
    \E category \in {None, "FOOD"}, period \in {None, "monthly"} :
        get_budget_status(category, period)

NextBudgets == SetBudget \/ GetBudgetStatus

SpecBudgets == Init /\ [][NextBudgets]_vars

----------------------------------------------------------------------------
(* The todo store under create_todo, update_todo and complete_todo.        *)

TodoIds == {"todo_" \o str(n) : n \in 1..(MaxTodos + 1)}

StatusUpdates ==
    { [status |-> "pending"],
      [status |-> "archived"],
      [priority |-> "low"] }

CreateTodo ==
    /\ Len(MOCK_TODOS) < MaxTodos
    /\ create_todo("Pay rent", None, "General", "high", None, None)

UpdateTodoStatus ==
    \E todo_id \in TodoIds, updates \in StatusUpdates : update_todo(todo_id, updates)

CompleteTodo ==
    \E todo_id \in TodoIds : complete_todo(todo_id, None)

NextTodoStatus == CreateTodo \/ UpdateTodoStatus \/ CompleteTodo

SpecTodoStatus == Init /\ [][NextTodoStatus]_vars

\* C4: every todo's status is pending or completed, and a todo that is completed stays
\* completed whatever create_todo, update_todo or complete_todo call follows.
TodoStatusOnlyPendingToCompleted ==
    [][\A i \in DOMAIN MOCK_TODOS' :
          /\ MOCK_TODOS'[i]["status"] \in {"pending", "completed"}
          /\ (i \in DOMAIN MOCK_TODOS /\ MOCK_TODOS[i]["status"] = "completed")
                => MOCK_TODOS'[i]["status"] = "completed"]_vars

----------------------------------------------------------------------------
(* The order of get_todos_by_category.                                     *)

CreateTodoWithPriorityAndDue ==
    /\ Len(MOCK_TODOS) < MaxTodos
    /\ \E priority \in {"high", "medium", "low"},
          due_date \in {None, "2025-01-10", "2025-01-20"} :
          create_todo("Pay rent", None, "General", priority, due_date, None)

GetTodosUnfiltered == get_todos_by_category(None, "all", None, DEFAULT_TODO_LIMIT)

NextTodoOrder == CreateTodoWithPriorityAndDue \/ GetTodosUnfiltered

SpecTodoOrder == Init /\ [][NextTodoOrder]_vars

\* The order the claim names: high before medium before low.
ClaimedPriorityRank(todo) ==
    CASE todo["priority"] = "high" -> 1
      [] todo["priority"] = "medium" -> 2
      [] todo["priority"] = "low" -> 3

\* Where a returned todo stands in the store (todo ids are never reused: no todo is
\* ever deleted).
StoreIndex(todo) == CHOOSE i \in DOMAIN MOCK_TODOS : MOCK_TODOS[i]["id"] = todo["id"]

UnfilteredTodoCall ==
    /\ call.op = "get_todos_by_category"
    /\ call.category = None
    /\ call.status = "all"
    /\ call.priority = None
    /\ call.limit = DEFAULT_TODO_LIMIT

\* a stands before b in the claimed order, or ties with it on both keys.
ClaimedBefore(a, b) ==
    \/ ClaimedPriorityRank(a) < ClaimedPriorityRank(b)
    \/ /\ ClaimedPriorityRank(a) = ClaimedPriorityRank(b)
       /\ \/ a["due_date"] # None /\ b["due_date"] = None
          \/ /\ a["due_date"] # None
             /\ b["due_date"] # None
             /\ a["due_date"] # b["due_date"]
             /\ str_le(a["due_date"], b["due_date"])
          \/ a["due_date"] = b["due_date"] /\ StoreIndex(a) < StoreIndex(b)

\* C5: get_todos_by_category without filters returns the stored todos (all of them, up
\* to the default limit) by priority, high before medium before low, then by due date
\* ascending with the todos without a due date last, and in insertion order where both
\* keys tie.
UnfilteredTodosSorted ==
    UnfilteredTodoCall =>
        /\ Len(MOCK_TODOS) <= DEFAULT_TODO_LIMIT => Len(ret) = Len(MOCK_TODOS)
        /\ \A k \in DOMAIN ret : \E i \in DOMAIN MOCK_TODOS : ret[k] = MOCK_TODOS[i]
        /\ \A k, l \in DOMAIN ret : k < l => ClaimedBefore(ret[k], ret[l])

\* C5 witness: three todos of one priority came back, the one with a due date moved
\* ahead of two without, which tie and kept their insertion order.
TodosReordered ==
    /\ UnfilteredTodoCall
    /\ Len(ret) = 3
    /\ ret[1]["due_date"] # None
    /\ ret[2]["due_date"] = None
    /\ ret[3]["due_date"] = None
    /\ ret[1]["priority"] = ret[3]["priority"]
    /\ StoreIndex(ret[1]) = 3
    /\ StoreIndex(ret[2]) = 1

----------------------------------------------------------------------------
(* update_expense and update_todo, with the clock running.                 *)

ExpenseUpdates ==
    { [amount |-> 25, id |-> "exp_9", created_at |-> "1999-01-01T00:00:00"],
      [amount |-> 25, updated_at |-> "1999-01-01T00:00:00"] }

TodoUpdates ==
    { [title |-> "Pay the rent", id |-> "todo_9", created_at |-> "1999-01-01T00:00:00"],
      [title |-> "Pay the rent", updated_at |-> "1999-01-01T00:00:00"] }

UpdatedExpenseIds == {"exp_" \o str(n) : n \in 1..(MaxRecords + 1)}
UpdatedTodoIds == {"todo_" \o str(n) : n \in 1..(MaxRecords + 1)}

AddExpenseToUpdate ==
    /\ Len(MOCK_EXPENSES) + Len(MOCK_TODOS) < MaxRecords
    /\ add_expense(10, "Groceries", "Food", None, None, None)

CreateTodoToUpdate ==
    /\ Len(MOCK_EXPENSES) + Len(MOCK_TODOS) < MaxRecords
    /\ create_todo("Pay rent", None, "General", "high", None, None)

UpdateExpense ==
    \E expense_id \in UpdatedExpenseIds, updates \in ExpenseUpdates :
        update_expense(expense_id, updates)

UpdateTodo ==
    \E todo_id \in UpdatedTodoIds, updates \in TodoUpdates : update_todo(todo_id, updates)

NextUpdates ==
    AddExpenseToUpdate \/ CreateTodoToUpdate \/ UpdateExpense \/ UpdateTodo \/ Tick

SpecUpdates == Init /\ [][NextUpdates]_vars

\* The allow-lists the claim speaks of.
ClaimedExpenseFields == {"amount", "description", "category", "date", "store", "payment_method"}

ClaimedTodoFields ==
    {"title", "description", "category", "priority", "due_date", "estimated_time", "status"}

\* Field f of a record is the same before and after: present in both with one value,
\* or absent from both.
FieldKept(before, after, f) ==
    /\ f \in DOMAIN before <=> f \in DOMAIN after
    /\ f \in DOMAIN before => after[f] = before[f]

\* What an update of record id with `updates` did to a store, `exempt` being the
\* fields besides the allow-listed ones named in updates that it may write.
UpdateEffect(before, after, id, updates, allowed, exempt, result) ==
    IF \A i \in DOMAIN before : before[i]["id"] # id
    THEN after = before /\ IsError(result)
    ELSE LET i == CHOOSE n \in DOMAIN before :
                    before[n]["id"] = id /\ \A m \in 1..(n - 1) : before[m]["id"] # id
         IN  /\ ~IsError(result)
             /\ Len(after) = Len(before)
             /\ \A j \in DOMAIN before : j # i => after[j] = before[j]
             /\ \A f \in DOMAIN updates \cap allowed : after[i][f] = updates[f]
             /\ \A f \in (DOMAIN before[i] \cup DOMAIN after[i] \cup DOMAIN updates)
                            \ ((DOMAIN updates \cap allowed) \cup exempt) :
                    FieldKept(before[i], after[i], f)

\* C3 as stated: an update writes only allow-listed fields; every other field of the
\* target keeps its value, every other record is unchanged, and an absent id gives an
\* error and no change.
UpdateWritesOnlyAllowedFields ==
    [][/\ \A expense_id \in UpdatedExpenseIds, updates \in ExpenseUpdates :
             update_expense(expense_id, updates)
                => UpdateEffect(MOCK_EXPENSES, MOCK_EXPENSES', expense_id, updates,
                                ClaimedExpenseFields, {}, ret')
       /\ \A todo_id \in UpdatedTodoIds, updates \in TodoUpdates :
             update_todo(todo_id, updates)
                => UpdateEffect(MOCK_TODOS, MOCK_TODOS', todo_id, updates,
                                ClaimedTodoFields, {}, ret')]_vars

\* C3 as amended: besides the allow-listed fields named in updates, a successful update
\* writes updated_at, which it sets to the time of the call (an updated_at key in
\* updates is ignored like any other key outside the allow-list).
UpdateWritesAllowedFieldsAndUpdatedAt ==
    [][/\ \A expense_id \in UpdatedExpenseIds, updates \in ExpenseUpdates :
             update_expense(expense_id, updates)
                => /\ UpdateEffect(MOCK_EXPENSES, MOCK_EXPENSES', expense_id, updates,
                                   ClaimedExpenseFields, {"updated_at"}, ret')
                   /\ ~IsError(ret') => ret'.expense["updated_at"] = isoformat(now)
       /\ \A todo_id \in UpdatedTodoIds, updates \in TodoUpdates :
             update_todo(todo_id, updates)
                => /\ UpdateEffect(MOCK_TODOS, MOCK_TODOS', todo_id, updates,
                                   ClaimedTodoFields, {"updated_at"}, ret')
                   /\ ~IsError(ret') => ret'.todo["updated_at"] = isoformat(now)]_vars

\* C3 witness: an update_todo naming id and created_at has been served for a stored
\* todo an hour after its creation, beside an expense that an update naming id and
\* created_at has changed: both kept their id and created_at.
UpdatedWithForeignKeys ==
    /\ call.op = "update_todo"
    /\ {"id", "created_at", "title"} \subseteq DOMAIN call.updates
    /\ ~IsError(ret)
    /\ ret.todo["id"] = call.todo_id
    /\ ret.todo["title"] = "Pay the rent"
    /\ ret.todo["created_at"] = isoformat(0)
    /\ ret.todo["updated_at"] = isoformat(1)
    /\ \E i \in DOMAIN MOCK_TODOS : MOCK_TODOS[i] = ret.todo
    /\ \E i \in DOMAIN MOCK_EXPENSES :
          /\ MOCK_EXPENSES[i]["id"] = "exp_1"
          /\ MOCK_EXPENSES[i]["amount"] = 25
          /\ "updated_at" \in DOMAIN MOCK_EXPENSES[i]

----------------------------------------------------------------------------
(* The expense queries.                                                    *)

\* The expenses the queries run over: amount, category, date (None: today).
DatedExpenses ==
    {<<10, "Food", "2025-01-10">>, <<25, "food", "2025-01-20">>,
     <<25, "Bills", "2025-01-10">>, <<10, "Food", "2025-01-20">>, <<10, "food", None>>}

AddDatedExpense ==
    /\ Len(MOCK_EXPENSES) < MaxExpenses
    /\ \E e \in DatedExpenses :
          add_expense(e[1], "Groceries", e[2], e[3], None, None)

GetExpensesByCategory ==
    \E category \in {None, "FOOD", "Work"},
       date_from \in {None, "2025-01-10"}, date_to \in {None, "2025-01-15"} :
        get_expenses_by_category(category, date_from, date_to, "month")

GetExpensesByDateRange ==
    \E date_from \in {"2025-01-10", "2025-01-15"}, date_to \in {"2025-01-15", "2025-01-20"},
       category \in {None, "FOOD"}, max_amount \in {<<>>, <<10>>} :
        get_expenses_by_date_range(date_from, date_to, category, <<>>, max_amount)

ExportExpenses ==
    \E format \in {"csv", "json", "pdf"},
       date_from \in {None, "2025-01-10"}, date_to \in {None, "2025-01-15"},
       include_summary \in BOOLEAN :
        export_expenses(format, date_from, date_to, None, include_summary)

NextExpenseQueries ==
    AddDatedExpense \/ GetExpensesByCategory \/ GetExpensesByDateRange \/ ExportExpenses

SpecExpenseQueries == Init /\ [][NextExpenseQueries]_vars

\* The stored expenses whose category is c, letter case ignored.
ExpensesInCategory(c) ==
    LET matches(exp) == lower_eq(exp["category"], c)
    IN  SelectSeq(MOCK_EXPENSES, matches)

\* C8: get_expenses_by_category with a category filter c returns one category group
\* when a stored expense matches c and none otherwise; the group's count and total, and
\* total_expenses and total_amount, are the number and the sum of the matching expenses.
CategoryFilterGivesOneGroup ==
    (/\ call.op = "get_expenses_by_category"
     /\ Truthy(call.category)
     /\ call.date_from = None
     /\ call.date_to = None)
    => LET matching == ExpensesInCategory(call.category)
       IN  /\ Len(ret.categories) = IF matching # <<>> THEN 1 ELSE 0
           /\ ret.total_expenses = Len(matching)
           /\ ret.total_amount = sum_amount(matching)
           /\ \A k \in DOMAIN ret.categories :
                 /\ ret.categories[k][2].count = Len(matching)
                 /\ ret.categories[k][2].total = sum_amount(matching)

\* e.date is within the bounds given, both inclusive; a bound not given (None) does
\* not restrict.
WithinBounds(exp, date_from, date_to) ==
    /\ date_from # None => str_le(date_from, exp["date"])
    /\ date_to # None => str_le(exp["date"], date_to)

\* How often record x occurs in sequence s.
Occurrences(s, x) == Cardinality({i \in DOMAIN s : s[i] = x})

\* C9: the date bounds are inclusive.  get_expenses_by_date_range returns exactly the
\* stored expenses with date_from <= date <= date_to, and get_expenses_by_category and
\* export_expenses keep exactly the expenses within the bounds they are given.
DateRangeInclusive ==
    LET expected == LET within(exp) == WithinBounds(exp, call.date_from, call.date_to)
                    IN  SelectSeq(MOCK_EXPENSES, within)
    IN  /\ (/\ call.op = "get_expenses_by_date_range"
            /\ call.category = None
            /\ call.max_amount = <<>>)
           => /\ ret.count = Len(expected)
              /\ Len(ret.expenses) = Len(expected)
              /\ \A i \in DOMAIN expected :
                    Occurrences(ret.expenses, expected[i]) = Occurrences(expected, expected[i])
        /\ (call.op = "get_expenses_by_category" /\ call.category = None)
           => /\ ret.total_expenses = Len(expected)
              /\ ret.total_amount = sum_amount(expected)
        /\ (call.op = "export_expenses" /\ call.category = None)
           => /\ ret.expenses = expected
              /\ ret.metadata.total_expenses = Len(expected)

\* C9 witness: a range query returned two expenses, one dated exactly date_from and one
\* dated exactly date_to.
BothBoundsReturned ==
    /\ call.op = "get_expenses_by_date_range"
    /\ call.category = None
    /\ call.max_amount = <<>>
    /\ call.date_from # call.date_to
    /\ ret.count = 2
    /\ ret.expenses[1]["date"] = call.date_to
    /\ ret.expenses[2]["date"] = call.date_from

----------------------------------------------------------------------------
(* The string filters of the query tools.                                  *)

CreateTodoToFilter ==
    /\ Len(MOCK_TODOS) + Len(MOCK_BUDGETS) + Len(MOCK_EXPENSES) < MaxRecords
    /\ \E category \in {"Work", "Home"}, priority \in {"high", "low"} :
          create_todo("Pay rent", None, category, priority, None, None)

CompleteFilteredTodo ==
    \E todo_id \in UpdatedTodoIds : complete_todo(todo_id, None)

SetBudgetToFilter ==
    /\ Len(MOCK_TODOS) + Len(MOCK_BUDGETS) + Len(MOCK_EXPENSES) < MaxRecords
    /\ \E category \in {"Food", "Bills"}, period \in {"monthly", "weekly"} :
          /\ ~HasKey(MOCK_BUDGETS, budget_key(category, period))
          /\ set_budget(category, 200, period, 80)

AddExpenseToFilter ==
    /\ Len(MOCK_TODOS) + Len(MOCK_BUDGETS) + Len(MOCK_EXPENSES) < MaxRecords
    /\ \E category \in {"Food", "Bills"} :
          add_expense(10, "Groceries", category, "2025-01-10", None, None)

GetTodosFiltered ==
    \E category \in {None, "WORK"}, status \in {"all", "pending", "PENDING"},
       priority \in {None, "high", "HIGH"} :
        get_todos_by_category(category, status, priority, DEFAULT_TODO_LIMIT)

GetBudgetStatusFiltered ==
    \E category \in {None, "FOOD"}, period \in {None, "monthly", "MONTHLY"} :
        get_budget_status(category, period)

GetExpensesFiltered ==
    \E category \in {None, "food", "FOOD"} :
        get_expenses_by_date_range("2025-01-10", "2025-01-20", category, <<>>, <<>>)

NextFilters ==
    \/ CreateTodoToFilter
    \/ CompleteFilteredTodo
    \/ SetBudgetToFilter
    \/ AddExpenseToFilter
    \/ GetTodosFiltered
    \/ GetBudgetStatusFiltered
    \/ GetExpensesFiltered

SpecFilters == Init /\ [][NextFilters]_vars

\* A filter that is not given (None, or "all" for a status) passes every record; one
\* that is given passes the records whose field equals it, letter case ignored.
PassesFilter(record, field, filter, unset) ==
    filter \in unset \/ lower_eq(record[field], filter)

\* C10: every string filter ignores letter case: get_todos_by_category returns the todos
\* whose category, status and priority equal the filters given, get_budget_status the
\* budgets whose category and period do, and get_expenses_by_date_range the expenses
\* of the range whose category does, all compared case-insensitively.
StringFiltersIgnoreCase ==
    /\ call.op = "get_todos_by_category"
       => {ret[k]["id"] : k \in DOMAIN ret}
          = {MOCK_TODOS[i]["id"] : i \in
                {j \in DOMAIN MOCK_TODOS :
                    /\ PassesFilter(MOCK_TODOS[j], "category", call.category, {None})
                    /\ PassesFilter(MOCK_TODOS[j], "status", call.status, {"all"})
                    /\ PassesFilter(MOCK_TODOS[j], "priority", call.priority, {None})}}
    /\ (call.op = "get_budget_status" /\ ~IsError(ret))
       => {budget_key(ret.budgets[k]["category"], ret.budgets[k]["period"]) :
              k \in DOMAIN ret.budgets}
          = {MOCK_BUDGETS[i][1] : i \in
                {j \in DOMAIN MOCK_BUDGETS :
                    /\ PassesFilter(MOCK_BUDGETS[j][2], "category", call.category, {None})
                    /\ PassesFilter(MOCK_BUDGETS[j][2], "period", call.period, {None})}}
    /\ (call.op = "get_expenses_by_date_range" /\ call.max_amount = <<>>)
       => {ret.expenses[k]["id"] : k \in DOMAIN ret.expenses}
          = {MOCK_EXPENSES[i]["id"] : i \in
                {j \in DOMAIN MOCK_EXPENSES :
                    /\ WithinBounds(MOCK_EXPENSES[j], call.date_from, call.date_to)
                    /\ PassesFilter(MOCK_EXPENSES[j], "category", call.category, {None})}}

----------------------------------------------------------------------------
(* shopping_manager.py: the store queries.  Prices and discounts are in     *)
(* cents, distances in metres, so that the model's numbers are whole.      *)

\* The dict MOCK_STORE_OFFERS as its items <<key, offers>> in insertion order.
MOCK_STORE_OFFERS ==
    << <<"spar", <<[item |-> "Bananas", price |-> 199, discount |-> 50,
                    valid_until |-> "2025-12-20"],
                   [item |-> "Milk", price |-> 129, discount |-> 20,
                    valid_until |-> "2025-12-18"]>> >>,
       <<"billa", <<[item |-> "Apples", price |-> 249, discount |-> 30,
                     valid_until |-> "2025-12-19"],
                    [item |-> "Bread", price |-> 189, discount |-> 40,
                     valid_until |-> "2025-12-17"]>> >> >>

\* store_name.lower() in MOCK_STORE_OFFERS
store_known(store_name) ==
    \E k \in DOMAIN MOCK_STORE_OFFERS : CHARS(MOCK_STORE_OFFERS[k][1]) = lower(store_name)

\* MOCK_STORE_OFFERS[store_name.lower()]
offers_of(store_name) ==
    MOCK_STORE_OFFERS[CHOOSE k \in DOMAIN MOCK_STORE_OFFERS :
                         CHARS(MOCK_STORE_OFFERS[k][1]) = lower(store_name)][2]

\* The offers of every store, in the order of MOCK_STORE_OFFERS.values().
RECURSIVE all_offers(_)
all_offers(items) ==
    IF items = <<>> THEN <<>> ELSE Head(items)[2] \o all_offers(Tail(items))

\* The offers get_store_offers collects: those of the named store when it is a key of
\* MOCK_STORE_OFFERS, else those of all stores.  The category filter is a no-op (pass).
collected_offers(store_name) ==
    IF Truthy(store_name) /\ store_known(store_name)
    THEN offers_of(store_name)
    ELSE all_offers(MOCK_STORE_OFFERS)

get_store_offers(store_name, category, limit) ==
    \E offers \in {slice_to(collected_offers(store_name), limit)} :
        /\ call' = [op |-> "get_store_offers", store_name |-> store_name,
                    category |-> category, limit |-> limit]
        /\ ret' = offers
        /\ UNCHANGED <<expense_store, planning_store, shopping_store, now, process_state>>

mock_coupons ==
    <<[store |-> "Spar", code |-> "SPAR10", discount |-> "10% off",
       category |-> "All items", expiry_date |-> "2025-12-31",
       description |-> "Valid on all purchases over 20"],
      [store |-> "Billa", code |-> "BILLA5", discount |-> "5 off",
       category |-> "Fruits & Vegetables", expiry_date |-> "2025-12-25",
       description |-> "Valid on seasonal produce"]>>

\* The two filters of find_coupons: the store by equality, the category by substring,
\* both on lowered strings.
coupons_for(store_name, category) ==
    LET by_store(c) == ~Truthy(store_name) \/ lower_eq(c["store"], store_name)
        by_category(c) == ~Truthy(category) \/ lower_in(category, c["category"])
    IN  SelectSeq(SelectSeq(mock_coupons, by_store), by_category)

find_coupons(store_name, category) ==
    /\ call' = [op |-> "find_coupons", store_name |-> store_name, category |-> category]
    /\ ret' = coupons_for(store_name, category)
    /\ UNCHANGED <<expense_store, planning_store, shopping_store, now, process_state>>

mock_stores ==
    <<[name |-> "Spar City", chain |-> "Spar", address |-> "Stephansplatz 1, 1010 Vienna",
       distance_km |-> 500, opening_hours |-> "06:00-22:00", phone |-> "+43 1 1234567"],
      [name |-> "Billa Plus", chain |-> "Billa", address |-> "Kaerntner Strasse 12, 1010 Vienna",
       distance_km |-> 800, opening_hours |-> "07:00-20:00", phone |-> "+43 1 2345678"]>>

\* The two filters of find_stores_nearby: the chain, then the radius.
stores_within(store_chain, radius_km) ==
    LET by_chain(store) == ~Truthy(store_chain) \/ lower_eq(store["chain"], store_chain)
        by_radius(store) == store["distance_km"] <= radius_km
    IN  SelectSeq(SelectSeq(mock_stores, by_chain), by_radius)

find_stores_nearby(location, store_chain, radius_km) ==
    /\ call' = [op |-> "find_stores_nearby", location |-> location,
                store_chain |-> store_chain, radius_km |-> radius_km]
    /\ ret' = stores_within(store_chain, radius_km)
    /\ UNCHANGED <<expense_store, planning_store, shopping_store, now, process_state>>

DEFAULT_OFFER_LIMIT == 10
DEFAULT_RADIUS == 2000

----------------------------------------------------------------------------
(* The list-returning queries, with filters that match nothing and with    *)
(* limits of either sign.                                                  *)

Limits == {0 - 1, 0, 1, 2, DEFAULT_OFFER_LIMIT}

CreateTodoToList ==
    /\ Len(MOCK_TODOS) < MaxRecords
    /\ \E category \in {"Work", "Home"}, priority \in {"high", "low"} :
          create_todo("Pay rent", None, category, priority, None, None)

GetTodosLimited ==
    \E category \in {None, "WORK"}, status \in {"all", "completed"}, limit \in Limits :
        get_todos_by_category(category, status, None, limit)

GetStoreOffers ==
    \E store_name \in {None, "Spar", "billa", "Hofer"}, limit \in Limits :
        get_store_offers(store_name, None, limit)

FindCoupons ==
    \E store_name \in {None, "spar", "Hofer"}, category \in {None, "fruits", "Meat"} :
        find_coupons(store_name, category)

FindStoresNearby ==
    \E store_chain \in {None, "SPAR", "Hofer"}, radius_km \in {DEFAULT_RADIUS, 600, 100} :
        find_stores_nearby("Stephansplatz", store_chain, radius_km)

NextListQueries ==
    CreateTodoToList \/ GetTodosLimited \/ GetStoreOffers \/ FindCoupons \/ FindStoresNearby

SpecListQueries == Init /\ [][NextListQueries]_vars

\* C11: a list-returning query whose filter matches no record returns the empty
\* sequence: get_todos_by_category when no stored todo has the category, status and
\* priority asked for, find_coupons when no coupon is of the store and category asked
\* for, find_stores_nearby when no store is of the chain and within the radius, and
\* get_store_offers when the store named has no offers.
NoMatchGivesEmptyList ==
    /\ (/\ call.op = "get_todos_by_category"
        /\ \A i \in DOMAIN MOCK_TODOS :
              ~(/\ PassesFilter(MOCK_TODOS[i], "category", call.category, {None})
                /\ PassesFilter(MOCK_TODOS[i], "status", call.status, {"all"})
                /\ PassesFilter(MOCK_TODOS[i], "priority", call.priority, {None})))
       => ret = <<>>
    /\ (/\ call.op = "find_coupons"
        /\ \A i \in DOMAIN mock_coupons :
              ~(/\ PassesFilter(mock_coupons[i], "store", call.store_name, {None})
                /\ call.category = None \/ lower_in(call.category, mock_coupons[i]["category"])))
       => ret = <<>>
    /\ (/\ call.op = "find_stores_nearby"
        /\ \A i \in DOMAIN mock_stores :
              ~(/\ PassesFilter(mock_stores[i], "chain", call.store_chain, {None})
                /\ mock_stores[i]["distance_km"] <= call.radius_km))
       => ret = <<>>
    /\ (/\ call.op = "get_store_offers"
        /\ call.store_name # None
        /\ \A k \in DOMAIN MOCK_STORE_OFFERS :
              ~lower_eq(MOCK_STORE_OFFERS[k][1], call.store_name))
       => ret = <<>>

\* The whole filtered and sorted sequence the limit of the last call was applied to.
UnlimitedAnswer ==
    CASE call.op = "get_todos_by_category" ->
            todos_by_category(MOCK_TODOS, call.category, call.status, call.priority,
                              Len(MOCK_TODOS))
      [] call.op = "get_store_offers" -> collected_offers(call.store_name)
      [] OTHER -> <<>>

\* C13: limit is a maximum applied after filtering and sorting.  For every integer
\* limit, get_todos_by_category and get_store_offers return a prefix of the filtered
\* and sorted sequence, of no more than max(limit, 0) records, and of exactly
\* min(limit, n) records when limit >= 0 and n records match.
LimitIsAMaximum ==
    call.op \in {"get_todos_by_category", "get_store_offers"}
    => LET n == Len(UnlimitedAnswer)
       IN  /\ Len(ret) <= n
           /\ ret = SubSeq(UnlimitedAnswer, 1, Len(ret))
           /\ Len(ret) <= IF call.limit > 0 THEN call.limit ELSE 0
           /\ call.limit >= 0 => Len(ret) = IF call.limit < n THEN call.limit ELSE n

----------------------------------------------------------------------------
(* expenses_manager.py: the reports over a period that ends today.         *)

\* calendar.isleap
is_leap(year) == (year % 4 = 0 /\ year % 100 # 0) \/ year % 400 = 0

days_in_month(year, month) ==
    CASE month = 2 -> IF is_leap(year) THEN 29 ELSE 28
      [] month \in {4, 6, 9, 11} -> 30
      [] OTHER -> 31

\* The date that is `day` days after the last day of the month before year-month,
\* as strftime("%Y-%m-%d") writes it; day may be zero or negative.
RECURSIVE calendar_date(_, _, _)
calendar_date(year, month, day) ==
    IF day >= 1
    THEN str(year) \o "-" \o two_digits(month) \o "-" \o two_digits(day)
    ELSE LET y == IF month = 1 THEN year - 1 ELSE year
             m == IF month = 1 THEN 12 ELSE month - 1
         IN  calendar_date(y, m, day + days_in_month(y, m))

\* (datetime.now() - timedelta(days=days)).strftime("%Y-%m-%d")
days_ago(t, days) == calendar_date(2025, 1, EPOCH_DAY + ((EPOCH_HOUR + t) \div 24) - days)

\* The if/elif chain of get_top_spending_categories; any other period counts as a month.
top_period_days(period) ==
    CASE period = "week" -> 7
      [] period = "month" -> 30
      [] period = "quarter" -> 90
      [] period = "year" -> 365
      [] OTHER -> 30

\* [exp for exp in MOCK_EXPENSES if date_from <= exp["date"] <= date_to]
period_expenses(expenses, date_from, date_to) ==
    LET in_period(exp) == in_date_range(exp, date_from, date_to)
    IN  SelectSeq(expenses, in_period)

\* The grouping loop of get_top_spending_categories: the dict category -> amount as its
\* items <<category, amount>> in insertion order.
RECURSIVE category_amounts(_, _)
category_amounts(totals, expenses) ==
    IF expenses = <<>> THEN totals
    ELSE LET cat == Head(expenses)["category"]
             known == \E k \in DOMAIN totals : totals[k][1] = cat
             opened == IF known THEN totals ELSE Append(totals, <<cat, 0>>)
             k == CHOOSE n \in DOMAIN opened : opened[n][1] = cat
         IN  category_amounts([opened EXCEPT ![k][2] = @ + Head(expenses)["amount"]],
                              Tail(expenses))

\* sorted(category_totals.items(), key=lambda x: x[1], reverse=True)
sorted_by_amount(totals) ==
    LET more(a, b) == a[2] > b[2]
    IN  StableSort(totals, more)

\* round(amount / total_spent * 100, 1) if total_spent > 0 else 0, in tenths of a per
\* cent: the nearest tenth, a tie going to the even one.
percentage_tenths(amount, total_spent) ==
    IF total_spent > 0
    THEN LET q == (amount * 1000) \div total_spent
             r == (amount * 1000) % total_spent
         IN  IF 2 * r > total_spent \/ (2 * r = total_spent /\ q % 2 = 1) THEN q + 1 ELSE q
    ELSE 0

\* The entry of one category in the answer of get_top_spending_categories.
top_category_entry(item, expenses, total_spent) ==
    LET same_category(exp) == exp["category"] = item[1]
    IN  [category |-> item[1],
         amount |-> item[2],
         percentage |-> percentage_tenths(item[2], total_spent),
         expense_count |-> Len(SelectSeq(expenses, same_category))]

get_top_spending_categories(period, limit) ==
    \E date_from \in {days_ago(now, top_period_days(period))} :
    \E selected \in {period_expenses(MOCK_EXPENSES, date_from, strftime(now))} :
    \E top \in {slice_to(sorted_by_amount(category_amounts(<<>>, selected)), limit)} :
        /\ call' = [op |-> "get_top_spending_categories", period |-> period, limit |-> limit]
        /\ ret' = [period |-> period,
                   date_range |-> [from |-> date_from, to |-> strftime(now)],
                   total_spent |-> sum_amount(selected),
                   categories |-> [k \in DOMAIN top |->
                                      top_category_entry(top[k], selected,
                                                         sum_amount(selected))]]
        /\ UNCHANGED <<expense_store, planning_store, shopping_store, now, process_state>>

DEFAULT_TOP_LIMIT == 5

\* The length in days of the period of analyze_spending_patterns, <<n>>, and <<>> when
\* no branch of its if/elif chain (which has no else) assigns date_from.  This variant
\* treats any other period as a month.
analysis_period_days_defaulting(period) ==
    CASE period = "month" -> <<30>>
      [] period = "quarter" -> <<90>>
      [] period = "year" -> <<365>>
      [] OTHER -> <<30>>

\* The length in days of the period of analyze_spending_patterns, <<n>>, and <<>> when
\* no branch of its if/elif chain (which has no else) assigns date_from.
analysis_period_days(period) ==
    CASE period = "month" -> <<30>>
      [] period = "quarter" -> <<90>>
      [] period = "year" -> <<365>>
      [] OTHER -> <<>>

\* str(e) of the UnboundLocalError (a NameError) that reading the unassigned date_from
\* raises; the wording depends on the interpreter's version and on whether the read is
\* inside the list comprehension.
UNBOUND_MESSAGES ==
    {"local variable 'date_from' referenced before assignment",
     "free variable 'date_from' referenced before assignment in enclosing scope",
     "cannot access local variable 'date_from' where it is not associated with a value",
     "cannot access free variable 'date_from' where it is not associated with a value in enclosing scope"}

\* The mock insights and recommendations of a focus; none for an unknown focus.
mock_insights(focus) ==
    CASE focus = "trends" ->
            <<"Spending increased by 15% compared to previous period",
              "Food category represents 35% of total expenses",
              "Weekend spending is 40% higher than weekdays">>
      [] focus = "anomalies" ->
            <<"Unusual spending spike on groceries last Tuesday",
              "Higher than average transport costs this week",
              "Multiple small purchases suggesting impulse buying">>
      [] focus = "savings" ->
            <<"Potential savings of EUR 120/month through bulk purchasing",
              "EUR 85/month savings possible with subscription optimization",
              "EUR 45/month savings from reduced dining out">>
      [] OTHER -> <<>>

mock_recommendations(focus) ==
    CASE focus = "trends" ->
            <<"Consider meal planning to reduce food expenses",
              "Look for grocery delivery discounts",
              "Set weekly spending limits for entertainment">>
      [] focus = "anomalies" ->
            <<"Review grocery purchases for bulk buying opportunities",
              "Check public transport subscriptions for savings",
              "Set daily spending alerts to curb impulse purchases">>
      [] focus = "savings" ->
            <<"Start a grocery bulk buying program",
              "Audit and cancel unused subscriptions",
              "Cook at home more frequently">>
      [] OTHER -> <<>>

\* The analysis dict; days_in_period is the days from date_from to date_to, plus one.
spending_analysis(expenses, date_from, date_to, days, focus) ==
    [period |-> [from |-> date_from, to |-> date_to],
     total_expenses |-> Len(expenses),
     total_spent |-> sum_amount(expenses),
     average_daily |-> IF expenses # <<>>
                       THEN [num |-> sum_amount(expenses), den |-> days + 1]
                       ELSE [num |-> 0, den |-> 1],
     insights |-> IF expenses # <<>> THEN mock_insights(focus) ELSE <<>>,
     recommendations |-> IF expenses # <<>> THEN mock_recommendations(focus) ELSE <<>>]

\* analyze_spending_patterns.  With a period outside month, quarter, year the first
\* read of date_from raises inside the try block, and the handler returns the error.
analyze_spending_patterns(period, focus) ==
    \E days \in {analysis_period_days(period)} :
        /\ call' = [op |-> "analyze_spending_patterns", period |-> period, focus |-> focus]
        /\ IF days = <<>>
           THEN \E message \in UNBOUND_MESSAGES : ret' = Error(message)
           ELSE \E date_from \in {days_ago(now, days[1])} :
                \E selected \in {period_expenses(MOCK_EXPENSES, date_from, strftime(now))} :
                    ret' = spending_analysis(selected, date_from, strftime(now),
                                             days[1], focus)
        /\ UNCHANGED <<expense_store, planning_store, shopping_store, now, process_state>>

----------------------------------------------------------------------------
(* The aggregations by category.                                           *)

GetCategoryTotals ==
    \E category \in {None, "FOOD"} :
        get_expenses_by_category(category, None, None, "month")

GetTopSpendingCategories ==
    \E period \in {"week", "month", "quarter", "year", "decade"},
       limit \in {DEFAULT_TOP_LIMIT, 1} :
        get_top_spending_categories(period, limit)

NextAggregations == AddDatedExpense \/ GetCategoryTotals \/ GetTopSpendingCategories

SpecAggregations == Init /\ [][NextAggregations]_vars

\* The index of the first stored expense of category c among the expenses dated within
\* date_from..date_to (a bound of None does not restrict).
FirstInserted(c, date_from, date_to) ==
    LET counted == {i \in DOMAIN MOCK_EXPENSES :
                       /\ MOCK_EXPENSES[i]["category"] = c
                       /\ WithinBounds(MOCK_EXPENSES[i], date_from, date_to)}
    IN  CHOOSE i \in counted : \A j \in counted : i <= j

\* C12: aggregations are ordered by total, largest first, with stable ties.  In the
\* answer of get_expenses_by_category the totals do not increase, categories of equal
\* total stand in the order their first expense was inserted, and top_category is the
\* first category (None when there is none); get_top_spending_categories orders the
\* categories of its period the same way.
AggregatesOrderedByTotal ==
    /\ call.op = "get_expenses_by_category"
       => /\ \A k, l \in DOMAIN ret.categories :
                k < l => \/ ret.categories[k][2].total > ret.categories[l][2].total
                         \/ /\ ret.categories[k][2].total = ret.categories[l][2].total
                            /\ FirstInserted(ret.categories[k][1], call.date_from, call.date_to)
                               < FirstInserted(ret.categories[l][1], call.date_from, call.date_to)
          /\ ret.top_category = IF ret.categories = <<>> THEN None ELSE ret.categories[1][1]
    /\ call.op = "get_top_spending_categories"
       => \A k, l \in DOMAIN ret.categories :
             k < l => \/ ret.categories[k].amount > ret.categories[l].amount
                      \/ /\ ret.categories[k].amount = ret.categories[l].amount
                         /\ FirstInserted(ret.categories[k].category,
                                          ret.date_range.from, ret.date_range.to)
                            < FirstInserted(ret.categories[l].category,
                                            ret.date_range.from, ret.date_range.to)

\* C12 witness: an answer of get_expenses_by_category holds two categories of equal
\* total, in the order their first expenses were inserted.
CategoriesTied ==
    /\ call.op = "get_expenses_by_category"
    /\ Len(ret.categories) = 2
    /\ ret.categories[1][2].total = ret.categories[2][2].total
    /\ ret.top_category = ret.categories[1][1]

----------------------------------------------------------------------------
(* Handlers whose body raises.                                             *)

AnalysisPeriods == {"month", "quarter", "week"}
AnalysisFocuses == {"trends", "anomalies", "savings", "taxes"}

AnalyzeSpendingPatterns ==
    \E period \in AnalysisPeriods, focus \in AnalysisFocuses :
        analyze_spending_patterns(period, focus)

SetBudgetOfAnyAmount ==
    /\ Len(MOCK_BUDGETS) < MaxBudgets
    /\ \E amount \in {0, 200} : set_budget("Food", amount, "monthly", 80)

GetBudgetStatusOfAll == get_budget_status(None, None)

NextRaising ==
    AddDatedExpense \/ AnalyzeSpendingPatterns \/ SetBudgetOfAnyAmount \/ GetBudgetStatusOfAll

SpecRaising == Init /\ [][NextRaising]_vars

----------------------------------------------------------------------------
(* What a confirmed delete returns (specification SpecExpenseStore).       *)

ExpenseFields ==
    {"id", "amount", "description", "category", "date", "store", "payment_method"}

\* C15: a successful delete_expense(id, confirm=true) returns a copy of the removed
\* record: deleted_expense carries every field of the expense, with the value it had in
\* the store just before the deletion.
DeleteReturnsRemovedRecord ==
    [][\A expense_id \in ExpenseIds :
          (delete_expense(expense_id, TRUE) /\ first_with_id(MOCK_EXPENSES, expense_id) # 0)
          => LET removed == MOCK_EXPENSES[first_with_id(MOCK_EXPENSES, expense_id)]
             IN  \A f \in ExpenseFields :
                    /\ f \in DOMAIN ret'.deleted_expense
                    /\ ret'.deleted_expense[f] = removed[f]]_vars

----------------------------------------------------------------------------
(* Completing a todo, once and again.                                      *)

CreateTodoToComplete ==
    /\ Len(MOCK_TODOS) < MaxRecords
    /\ \E priority \in {"high", "low"} :
          create_todo("Pay rent", None, "General", priority, None, None)

CompleteTodoWithNotes ==
    \E todo_id \in UpdatedTodoIds, completion_notes \in {None, "paid"} :
        complete_todo(todo_id, completion_notes)

NextCompletion == CreateTodoToComplete \/ CompleteTodoWithNotes \/ Tick

SpecCompletion == Init /\ [][NextCompletion]_vars

\* C16: complete_todo is idempotent on status.  On an existing todo, whether pending
\* or already completed, it returns success and leaves the todo completed; a second
\* call does the same, and no other todo is changed by either.
CompleteTodoIdempotent ==
    [][\A todo_id \in UpdatedTodoIds, completion_notes \in {None, "paid"} :
          (/\ complete_todo(todo_id, completion_notes)
           /\ \E i \in DOMAIN MOCK_TODOS : MOCK_TODOS[i]["id"] = todo_id)
          => /\ ~IsError(ret')
             /\ ret'.success = TRUE
             /\ Len(MOCK_TODOS') = Len(MOCK_TODOS)
             /\ \A i \in DOMAIN MOCK_TODOS :
                   IF MOCK_TODOS[i]["id"] = todo_id
                   THEN /\ MOCK_TODOS'[i]["status"] = "completed"
                        /\ MOCK_TODOS'[i]["id"] = todo_id
                   ELSE MOCK_TODOS'[i] = MOCK_TODOS[i]]_vars

\* C16 witness: complete_todo has succeeded on a stored todo, which is completed, next
\* to a todo that is still pending.
CompletedBesidePending ==
    /\ call.op = "complete_todo"
    /\ ~IsError(ret)
    /\ Len(MOCK_TODOS) = 2
    /\ \E i, j \in DOMAIN MOCK_TODOS :
          /\ MOCK_TODOS[i]["id"] = call.todo_id
          /\ MOCK_TODOS[i]["status"] = "completed"
          /\ MOCK_TODOS[j]["status"] = "pending"

----------------------------------------------------------------------------
(* Setting a budget and reading it back.                                   *)

SetBudgetOfAmount ==
    \E category \in {"Food", "Bills"}, amount \in {0, 50, 200}, period \in {"monthly", "weekly"} :
        /\ \/ HasKey(MOCK_BUDGETS, budget_key(category, period))
           \/ Len(MOCK_BUDGETS) < MaxBudgets
        /\ set_budget(category, amount, period, 80)

GetBudgetStatusOfCategory ==
    \E category \in {None, "Food", "FOOD"} : get_budget_status(category, None)

NextBudgetRoundTrip == SetBudgetOfAmount \/ GetBudgetStatusOfCategory

SpecBudgetRoundTrip == Init /\ [][NextBudgetRoundTrip]_vars

\* The indices of the stored budgets whose category is c, letter case ignored.
BudgetsOfCategory(c) ==
    {n \in DOMAIN MOCK_BUDGETS : lower_eq(MOCK_BUDGETS[n][2]["category"], c)}

\* C17: after set_budget(c, a, p) the store holds one budget for (c, p), of amount a, the
\* amount of the latest set_budget for the pair; and get_budget_status(category=c) on a
\* store that holds one budget for category c returns exactly that one budget, with its
\* amount.
BudgetReadBack ==
    /\ call.op = "set_budget"
       => \E n \in DOMAIN MOCK_BUDGETS :
             /\ MOCK_BUDGETS[n][2]["amount"] = call.amount
             /\ \A m \in DOMAIN MOCK_BUDGETS :
                   (/\ MOCK_BUDGETS[m][2]["category"] = call.category
                    /\ MOCK_BUDGETS[m][2]["period"] = call.period) <=> m = n
    /\ (/\ call.op = "get_budget_status"
        /\ call.category # None
        /\ call.period = None
        /\ Cardinality(BudgetsOfCategory(call.category)) = 1)
       => /\ ~IsError(ret)
          /\ Len(ret.budgets) = 1
          /\ \A n \in BudgetsOfCategory(call.category) :
                /\ ret.budgets[1]["amount"] = MOCK_BUDGETS[n][2]["amount"]
                /\ ret.budgets[1]["category"] = MOCK_BUDGETS[n][2]["category"]
                /\ ret.budgets[1]["period"] = MOCK_BUDGETS[n][2]["period"]

----------------------------------------------------------------------------
(* shopping_manager.py: the shopping lists.                                *)

\* MOCK_SHOPPING_LISTS[k]
ItemOf(items, k) == items[CHOOSE n \in DOMAIN items : items[n][1] = k][2]

\* A list id that does not depend on the number of lists.
next_list_id_fixed(lists) == "list_1"

\* f"list_{len(MOCK_SHOPPING_LISTS) + 1}"
next_list_id(lists) == "list_" \o str(Len(lists) + 1)

shopping_list_create(name, description, store_preference) ==
    LET list_id == next_list_id(MOCK_SHOPPING_LISTS)
        shopping_list == [id |-> list_id,
                          name |-> name,
                          description |-> description,
                          store_preference |-> store_preference,
                          items |-> <<>>,
                          created_at |-> isoformat(now),
                          total_estimated |-> 0]
    IN  /\ call' = [op |-> "shopping_list_create", name |-> name,
                    description |-> description, store_preference |-> store_preference]
        /\ MOCK_SHOPPING_LISTS' = PutItem(MOCK_SHOPPING_LISTS, list_id, shopping_list)
        /\ ret' = shopping_list
        /\ UNCHANGED <<expense_store, planning_store, now, process_state>>

\* f"item_{len(MOCK_SHOPPING_LISTS[list_id]['items']) + 1}"
next_item_id(shopping_list) == "item_" \o str(Len(shopping_list["items"]) + 1)

shopping_list_add_item(list_id, item_name, quantity, category, notes) ==
    /\ call' = [op |-> "shopping_list_add_item", list_id |-> list_id, item_name |-> item_name,
                quantity |-> quantity, category |-> category, notes |-> notes]
    /\ IF ~HasKey(MOCK_SHOPPING_LISTS, list_id)
       THEN /\ ret' = Error("Shopping list " \o list_id \o " not found")
            /\ UNCHANGED MOCK_SHOPPING_LISTS
       ELSE \E shopping_list \in {ItemOf(MOCK_SHOPPING_LISTS, list_id)} :
            \E item \in {[id |-> next_item_id(shopping_list),
                          name |-> item_name,
                          quantity |-> quantity,
                          category |-> category,
                          notes |-> notes,
                          completed |-> FALSE,
                          added_at |-> isoformat(now)]} :
                /\ MOCK_SHOPPING_LISTS' =
                      PutItem(MOCK_SHOPPING_LISTS, list_id,
                              [shopping_list EXCEPT !["items"] = Append(@, item)])
                /\ ret' = item
    /\ UNCHANGED <<expense_store, planning_store, now, process_state>>

\* [item for item in shopping_list["items"] if not item.get("completed", False)]
open_items(items) ==
    LET open(item) == ~("completed" \in DOMAIN item /\ item["completed"])
    IN  SelectSeq(items, open)

shopping_list_get(list_id, include_completed) ==
    /\ call' = [op |-> "shopping_list_get", list_id |-> list_id,
                include_completed |-> include_completed]
    /\ IF ~HasKey(MOCK_SHOPPING_LISTS, list_id)
       THEN ret' = Error("Shopping list " \o list_id \o " not found")
       ELSE \E shopping_list \in {ItemOf(MOCK_SHOPPING_LISTS, list_id)} :
               ret' = IF include_completed THEN shopping_list
                      ELSE [shopping_list EXCEPT !["items"] = open_items(@)]
    /\ UNCHANGED <<expense_store, planning_store, shopping_store, now, process_state>>

----------------------------------------------------------------------------
(* The shopping lists and their items.                                     *)

\* The lists created: name, description, store_preference.
NewLists == {<<"Weekly", None, None>>, <<"Party", "for Saturday", "Spar">>}

ListIds == {"list_" \o str(n) : n \in 1..(MaxRecords + 1)}

RECURSIVE count_items(_)
count_items(lists) ==
    IF lists = <<>> THEN 0 ELSE Len(Head(lists)[2]["items"]) + count_items(Tail(lists))

ShoppingListCreate ==
    /\ Len(MOCK_SHOPPING_LISTS) < MaxRecords
    /\ \E l \in NewLists : shopping_list_create(l[1], l[2], l[3])

ShoppingListAddItem ==
    /\ count_items(MOCK_SHOPPING_LISTS) < MaxRecords
    /\ \E list_id \in ListIds, item_name \in {"Milk", "Bread"} :
          shopping_list_add_item(list_id, item_name, 1, None, None)

ShoppingListGet ==
    \E list_id \in ListIds, include_completed \in BOOLEAN :
        shopping_list_get(list_id, include_completed)

NextShopping == ShoppingListCreate \/ ShoppingListAddItem \/ ShoppingListGet

SpecShopping == Init /\ [][NextShopping]_vars

\* The fields of a shopping list that its creator gave or was given.
ListFields == {"id", "name", "description", "store_preference"}

SameList(a, b) == \A f \in ListFields : a[f] = b[f]

\* C18: create/find round trip for shopping lists.  shopping_list_create returns a list
\* with the name, description and store_preference given, stored under a new id; a
\* stored list keeps its id and these fields in every later step; shopping_list_get of
\* a stored id succeeds and returns the stored id and fields, and of an id that was
\* never created returns the error shape.
ShoppingListRoundTrip ==
    [][/\ \A l \in NewLists :
             shopping_list_create(l[1], l[2], l[3])
             => /\ ~IsError(ret')
                /\ ret'.name = l[1] /\ ret'.description = l[2] /\ ret'.store_preference = l[3]
                /\ ~HasKey(MOCK_SHOPPING_LISTS, ret'.id)
                /\ HasKey(MOCK_SHOPPING_LISTS', ret'.id)
                /\ SameList(ItemOf(MOCK_SHOPPING_LISTS', ret'.id), ret')
       /\ \A n \in DOMAIN MOCK_SHOPPING_LISTS :
             /\ n \in DOMAIN MOCK_SHOPPING_LISTS'
             /\ MOCK_SHOPPING_LISTS'[n][1] = MOCK_SHOPPING_LISTS[n][1]
             /\ MOCK_SHOPPING_LISTS[n][2]["id"] = MOCK_SHOPPING_LISTS[n][1]
             /\ SameList(MOCK_SHOPPING_LISTS'[n][2], MOCK_SHOPPING_LISTS[n][2])
       /\ \A list_id \in ListIds, include_completed \in BOOLEAN :
             shopping_list_get(list_id, include_completed)
             => IF HasKey(MOCK_SHOPPING_LISTS, list_id)
                THEN /\ ~IsError(ret')
                     /\ ret'.id = list_id
                     /\ SameList(ret', ItemOf(MOCK_SHOPPING_LISTS, list_id))
                ELSE IsError(ret')]_vars

\* C18 witness: the first list created is read back, with the name it was given, after
\* a second list was created and an item added.
FirstListReadBack ==
    /\ call.op = "shopping_list_get"
    /\ call.list_id = "list_1"
    /\ ~IsError(ret)
    /\ ret.id = "list_1"
    /\ ret.name = "Party"
    /\ Len(MOCK_SHOPPING_LISTS) = 2
    /\ MOCK_SHOPPING_LISTS[2][2]["name"] = "Weekly"
    /\ count_items(MOCK_SHOPPING_LISTS) > 0

\* C20: every shopping item is identified by its id: no two items of the store, in one
\* list or in two, share an id; every item was added with completed = false (no tool
\* completes an item), and a list's items stand in the order they were added, each
\* addition going to the end of its list.
ShoppingItemIdsUnique ==
    /\ \A m, n \in DOMAIN MOCK_SHOPPING_LISTS :
          \A i \in DOMAIN MOCK_SHOPPING_LISTS[m][2]["items"],
             j \in DOMAIN MOCK_SHOPPING_LISTS[n][2]["items"] :
                MOCK_SHOPPING_LISTS[m][2]["items"][i]["id"]
                   = MOCK_SHOPPING_LISTS[n][2]["items"][j]["id"]
                => (m = n /\ i = j)
    /\ \A m \in DOMAIN MOCK_SHOPPING_LISTS :
          \A i \in DOMAIN MOCK_SHOPPING_LISTS[m][2]["items"] :
             MOCK_SHOPPING_LISTS[m][2]["items"][i]["completed"] = FALSE
    /\ (call.op = "shopping_list_add_item" /\ ~IsError(ret))
       => LET items == ItemOf(MOCK_SHOPPING_LISTS, call.list_id)["items"]
          IN  items[Len(items)] = ret

----------------------------------------------------------------------------
(* Amounts of any sign given to add_expense and set_budget.                *)

SignedAmounts == {0 - 5, 0, 10}

AddExpenseOfAnyAmount ==
    /\ Len(MOCK_EXPENSES) < MaxExpenses
    /\ \E amount \in SignedAmounts :
          add_expense(amount, "Groceries", "Food", None, None, None)

SetBudgetOfSignedAmount ==
    /\ Len(MOCK_BUDGETS) < MaxBudgets
    /\ \E amount \in SignedAmounts, category \in {"Food", "Bills"} :
          set_budget(category, amount, "monthly", 80)

NextValidation == AddExpenseOfAnyAmount \/ SetBudgetOfSignedAmount

SpecValidation == Init /\ [][NextValidation]_vars

\* C19: amounts out of range are rejected at creation.  add_expense and set_budget
\* with an amount <= 0 return the error shape and leave the store unchanged, so that
\* every stored expense and every stored budget has an amount > 0.
AmountsValidated ==
    [][/\ \A amount \in SignedAmounts :
             (amount <= 0 /\ add_expense(amount, "Groceries", "Food", None, None, None))
             => (IsError(ret') /\ UNCHANGED expense_store)
       /\ \A amount \in SignedAmounts, category \in {"Food", "Bills"} :
             (amount <= 0 /\ set_budget(category, amount, "monthly", 80))
             => (IsError(ret') /\ UNCHANGED expense_store)
       /\ \A i \in DOMAIN MOCK_EXPENSES' : MOCK_EXPENSES'[i]["amount"] > 0
       /\ \A i \in DOMAIN MOCK_BUDGETS' : MOCK_BUDGETS'[i][2]["amount"] > 0]_vars

----------------------------------------------------------------------------
(* The frame of a confirmed delete.                                        *)

----------------------------------------------------------------------------
(* get_budget_status as a query.                                           *)

\* C29: get_budget_status is a pure read.  For every category and period filter and
\* every store, the call leaves every stored budget as it was: spent_this_period and
\* remaining keep the values set_budget stored, and no percentage_used or alert is
\* added to a stored budget.
BudgetStatusIsPureRead ==
    [][\A category \in {None, "Food", "FOOD"} :
          get_budget_status(category, None) => UNCHANGED MOCK_BUDGETS]_vars

\* C30: get_budget_status always answers with a budgets payload.  After any sequence
\* of set_budget calls and for every filter, the answer is a mapping with "budgets" and
\* "summary", never the error shape, and summary.total_budgets is the number of
\* budgets returned.
BudgetStatusAlwaysPayload ==
    call.op = "get_budget_status"
    => /\ ~IsError(ret)
       /\ {"budgets", "summary"} \subseteq DOMAIN ret
       /\ ret["summary"]["total_budgets"] = Len(ret["budgets"])

----------------------------------------------------------------------------
(* planning_manager.py: the goals.                                         *)

set_goal(title, description, category, target_value, target_date, measurement_unit) ==
    LET goal == [id |-> "goal_" \o str(Len(MOCK_GOALS) + 1),
                 title |-> title,
                 description |-> description,
                 category |-> category,
                 target_value |-> target_value,
                 current_value |-> 0,
                 target_date |-> target_date,
                 measurement_unit |-> measurement_unit,
                 status |-> "active",
                 created_at |-> isoformat(now),
                 progress_percentage |-> 0]
    IN  /\ call' = [op |-> "set_goal", title |-> title, target_value |-> target_value,
                    target_date |-> target_date]
        /\ MOCK_GOALS' = Append(MOCK_GOALS, goal)
        /\ ret' = [success |-> TRUE, goal |-> goal, message |-> "Goal set successfully"]
        /\ UNCHANGED <<expense_store, MOCK_TODOS, MOCK_HABITS, shopping_store, now, process_state>>

\* int() of a string of digits, given by its characters.
RECURSIVE digits_value(_)
digits_value(cs) ==
    IF cs = <<>> THEN 0
    ELSE 10 * digits_value(SubSeq(cs, 1, Len(cs) - 1)) + (ord(cs[Len(cs)]) - 48)

\* datetime.fromisoformat(s) of a date: <<year, month, day>>, or <<>> where it raises
\* ValueError.
fromisoformat(s) ==
    LET cs == CHARS(s)
        digits(a, b) == \A i \in a..b : ord(cs[i]) \in 48..57
    IN  IF /\ Len(cs) = 10
           /\ cs[5] = "-" /\ cs[8] = "-"
           /\ digits(1, 4) /\ digits(6, 7) /\ digits(9, 10)
        THEN LET year == digits_value(SubSeq(cs, 1, 4))
                 month == digits_value(SubSeq(cs, 6, 7))
                 day == digits_value(SubSeq(cs, 9, 10))
             IN  IF year >= 1 /\ month \in 1..12 /\ day \in 1..days_in_month(year, month)
                 THEN <<year, month, day>>
                 ELSE <<>>
        ELSE <<>>

\* The days from the first of January 2025 to the first of January of `year`.
RECURSIVE days_to_year(_)
days_to_year(year) ==
    IF year = 2025 THEN 0
    ELSE IF year > 2025
    THEN days_to_year(year - 1) + (IF is_leap(year - 1) THEN 366 ELSE 365)
    ELSE days_to_year(year + 1) - (IF is_leap(year) THEN 366 ELSE 365)

\* The days from the first of January of `year` to the first of `month`.
RECURSIVE days_to_month(_, _)
days_to_month(year, month) ==
    IF month = 1 THEN 0
    ELSE days_to_month(year, month - 1) + days_in_month(year, month - 1)

\* (target_date - datetime.now()).days: whole days, rounded down.
days_remaining(date, t) ==
    LET target_hours ==
            24 * (days_to_year(date[1]) + days_to_month(date[1], date[2]) + date[3] - 1)
        now_hours == 24 * (EPOCH_DAY - 1) + EPOCH_HOUR + t
        hours == target_hours - now_hours
    IN  IF hours >= 0 THEN hours \div 24 ELSE 0 - ((23 - hours) \div 24)

\* The if/elif chain on days_remaining.
urgency_of(days) ==
    IF days < 7 THEN "high" ELSE IF days < 14 THEN "medium" ELSE "low"

\* goal["target_value"] * 0.65
mock_progress(target_value) == quotient(target_value * 65, 100)

\* The loop over the selected goals, given by their indexes in MOCK_GOALS.
\* MOCK_GOALS.copy() and the list comprehensions copy the list, not the goals in it, so
\* the loop writes to the stored goals.  A target_value of 0 raises ZeroDivisionError
\* after current_value was written, a target_date that is no ISO date raises ValueError
\* after progress_percentage was written; the loop stops there.
\* Returns <<store, failed>>.
RECURSIVE track_goals(_, _, _)
track_goals(store, selected, t) ==
    IF selected = <<>> THEN <<store, FALSE>>
    ELSE LET n == Head(selected)
             goal == store[n]
         IN  IF goal["status"] # "active" THEN track_goals(store, Tail(selected), t)
             ELSE LET valued == SetKey(goal, "current_value",
                                       mock_progress(goal["target_value"]))
                  IN  IF goal["target_value"] = 0
                      THEN <<[store EXCEPT ![n] = valued], TRUE>>
                      ELSE LET rated == SetKey(valued, "progress_percentage",
                                               quotient(valued["current_value"] * 100,
                                                        valued["target_value"]))
                               date == fromisoformat(goal["target_date"])
                           IN  IF date = <<>>
                               THEN <<[store EXCEPT ![n] = rated], TRUE>>
                               ELSE track_goals(
                                       [store EXCEPT ![n] =
                                           SetKey(rated, "urgency",
                                                  urgency_of(days_remaining(date, t)))],
                                       Tail(selected), t)

\* The indexes of the goals the two filters keep, in the order of the list.
RECURSIVE selected_goals(_, _, _, _)
selected_goals(store, n, goal_id, status) ==
    IF n > Len(store) THEN <<>>
    ELSE LET keep == /\ (~Truthy(goal_id) \/ store[n]["id"] = goal_id)
                     /\ (status = "all" \/ store[n]["status"] = status)
         IN  (IF keep THEN <<n>> ELSE <<>>) \o selected_goals(store, n + 1, goal_id, status)

get_goals_progress(goal_id, status) ==
    /\ call' = [op |-> "get_goals_progress", goal_id |-> goal_id, status |-> status]
    /\ \E selected \in {selected_goals(MOCK_GOALS, 1, goal_id, status)} :
       \E tracked \in {track_goals(MOCK_GOALS, selected, now)} :
          /\ MOCK_GOALS' = tracked[1]
          /\ ret' = IF tracked[2] THEN <<>>
                    ELSE [i \in DOMAIN selected |-> tracked[1][selected[i]]]
    /\ UNCHANGED <<expense_store, MOCK_TODOS, MOCK_HABITS, shopping_store, now, process_state>>

----------------------------------------------------------------------------
(* The goals under set_goal and get_goals_progress.                        *)

\* The goals set: target_value, target_date.
NewGoals == {<<100, "2025-01-20">>, <<100, "2025-02-01">>, <<0, "2025-01-20">>,
             <<100, "soon">>}

GoalIds == {"goal_" \o str(n) : n \in 1..(MaxRecords + 1)}

SetGoal ==
    /\ Len(MOCK_GOALS) < MaxRecords
    /\ \E g \in NewGoals : set_goal("Run", "a marathon", "Health", g[1], g[2], None)

GetGoalsProgress ==
    \E goal_id \in {None} \cup GoalIds, status \in {"all", "active", "completed"} :
        get_goals_progress(goal_id, status)

NextGoals == SetGoal \/ GetGoalsProgress

SpecGoals == Init /\ [][NextGoals]_vars

\* C28: get_goals_progress is a pure read.  For every goal_id and status argument and
\* every store, the call leaves every stored goal as it was: current_value and
\* progress_percentage of a goal created by set_goal stay 0.
GoalsProgressIsPureRead ==
    [][\A goal_id \in {None} \cup GoalIds, status \in {"all", "active", "completed"} :
          get_goals_progress(goal_id, status) => UNCHANGED MOCK_GOALS]_vars

----------------------------------------------------------------------------
(* server.py: the two core tools.                                          *)

get_server_status ==
    /\ call' = [op |-> "get_server_status"]
    /\ ret' = [server |-> [name |-> "vienna-live-mcp", version |-> "0.1.0",
                           status |-> "healthy", uptime |-> "N/A"],
               database |-> [status |-> "connected", type |-> "PostgreSQL"],
               services |-> [wiener_linien |-> "available", weather_api |-> "available",
                             currency_api |-> "available"],
               portmanteaus |-> <<"shopping_manager", "travel_manager", "expenses_manager",
                                  "media_manager", "planning_manager">>,
               tools_count |-> 63,
               last_updated |-> "2025-12-15"]
    /\ UNCHANGED <<expense_store, planning_store, shopping_store, now, process_state>>

\* The dict literal of get_portmanteau_info, as its items in the order written.
portmanteau_info ==
    << <<"shopping_manager",
         [description |-> "Comprehensive shopping management with offers, lists, and budget tracking",
          tools_count |-> 11,
          categories |-> <<"offers", "lists", "budget", "receipts">>,
          tools |-> <<"get_store_offers", "compare_prices", "find_stores_nearby",
                      "shopping_list_create", "shopping_list_add_item",
                      "get_shopping_recommendations", "budget_check_item", "find_coupons",
                      "analyze_receipt", "get_shopping_history">>]>>,
       <<"travel_manager",
         [description |-> "Complete travel planning with transport, weather, and booking",
          tools_count |-> 15,
          categories |-> <<"transport", "planning", "weather", "booking">>,
          tools |-> <<"get_next_tram", "plan_day_trip", "get_weather_for_travel",
                      "get_train_schedule", "get_flight_info", "get_currency_exchange",
                      "get_visa_requirements", "calculate_travel_cost",
                      "get_sleeper_train_schedule">>]>>,
       <<"expenses_manager",
         [description |-> "Advanced expense tracking, analysis, and budget management",
          tools_count |-> 12,
          categories |-> <<"tracking", "analysis", "budget", "export">>,
          tools |-> <<"add_expense", "get_expenses_by_category", "analyze_spending_patterns",
                      "set_budget", "get_budget_status", "predict_monthly_expense",
                      "export_expenses", "import_expenses">>]>>,
       <<"media_manager",
         [description |-> "Unified media management across Plex, Calibre, and Immich",
          tools_count |-> 10,
          categories |-> <<"plex", "calibre", "immich", "cross-media">>,
          tools |-> <<"search_plex_library", "get_currently_watching",
                      "search_calibre_library", "search_immich_photos",
                      "create_media_playlist", "analyze_media_preferences",
                      "get_media_suggestions">>]>>,
       <<"planning_manager",
         [description |-> "Personal planning and productivity management",
          tools_count |-> 15,
          categories |-> <<"todos", "calendar", "goals", "habits">>,
          tools |-> <<"create_todo", "get_todos_by_category", "schedule_meeting",
                      "set_goal", "create_habit", "get_productivity_stats",
                      "plan_week", "get_motivational_quote">>]>> >>

\* A list of keys that misses the last key.
list_keys_but_last(items) == [n \in 1..(Len(items) - 1) |-> items[n][1]]

\* list(d.keys())
list_keys(items) == [n \in DOMAIN items |-> items[n][1]]

get_portmanteau_info(portmanteau) ==
    /\ call' = [op |-> "get_portmanteau_info", portmanteau |-> portmanteau]
    /\ ret' = IF ~HasKey(portmanteau_info, portmanteau)
              THEN [error |-> "Unknown portmanteau: " \o portmanteau,
                    available_portmanteaus |-> list_keys(portmanteau_info)]
              ELSE ItemOf(portmanteau_info, portmanteau)
    /\ UNCHANGED <<expense_store, planning_store, shopping_store, now, process_state>>

----------------------------------------------------------------------------
(* server.py: the launch of the process.                                   *)
(* The process is started either as  python -m vienna_live_mcp.server  (the *)
(* usage __init__.py documents) or by importing vienna_live_mcp.server and  *)
(* calling main().  Either way the package is imported first, and its       *)
(* __init__.py imports .server: the body of server.py runs as the module    *)
(* vienna_live_mcp.server.  Under -m the same file then runs once more, as  *)
(* the module __main__, and its last statement calls main().                *)

\* app = FastMCP(name=..., version=...): no lifespan is passed.
FastMCP(name, version) ==
    [name |-> name, version |-> version, lifespan |-> None, tools |-> <<>>]

\* The five registration statements of the module body, in their order.
REGISTRATIONS ==
    <<"register_shopping_tools", "register_travel_tools", "register_expenses_tools",
      "register_media_tools", "register_planning_tools">>

\* lifespan up to its yield: the calls it makes, and whether it raises instead of
\* yielding.  initialize_database re-raises what init_db raises; the except clause of
\* lifespan re-raises it and the finally clause runs cleanup_resources.
lifespan_enter(db_fails) ==
    IF db_fails
    THEN [calls |-> <<"initialize_database", "cleanup_resources">>, raised |-> TRUE]
    ELSE [calls |-> <<"initialize_database", "initialize_clients">>, raised |-> FALSE]

\* lifespan after its yield: the finally clause.
lifespan_exit == <<"cleanup_resources">>

\* What entering the lifespan of an app runs: the lifespan it was constructed with, or
\* nothing.
enter_lifespan(app, db_fails) ==
    IF app["lifespan"] = "lifespan" THEN lifespan_enter(db_fails)
    ELSE [calls |-> <<>>, raised |-> FALSE]

exit_lifespan(app) == IF app["lifespan"] = "lifespan" THEN lifespan_exit ELSE <<>>

\* args.transport: the argument, or the default of the parser.
parsed_transport(argument) == IF argument = None THEN "stdio" ELSE argument

Launch ==
    /\ server["phase"] = "off"
    /\ \E mode \in {"module", "import"}, transport \in {None, "stdio", "http"},
          db_fails \in BOOLEAN :
          server' = [server EXCEPT !["phase"] = "executing", !["mode"] = mode,
                                   !["transport"] = transport, !["db_fails"] = db_fails,
                                   !["module"] = "vienna_live_mcp.server", !["line"] = 0]
    /\ UNCHANGED <<expense_store, planning_store, shopping_store, now, call, ret, tasks>>

\* app = FastMCP(...), in the module whose body is running.
CreateApp ==
    /\ server["phase"] = "executing"
    /\ server["line"] = 0
    /\ server' = [server EXCEPT
                    !["apps"] = Append(@, FastMCP("vienna-live-mcp", "0.1.0")),
                    !["modules"] = PutItem(@, server["module"], Len(server["apps"]) + 1),
                    !["line"] = 1]
    /\ UNCHANGED <<expense_store, planning_store, shopping_store, now, call, ret, tasks>>

\* The next of the five register_..._tools(app) statements.
RegisterTools ==
    /\ server["phase"] = "executing"
    /\ server["line"] \in DOMAIN REGISTRATIONS
    /\ \E app \in {ItemOf(server["modules"], server["module"])} :
          server' = [server EXCEPT
                       !["invoked"] = Append(@, <<REGISTRATIONS[server["line"]], app>>),
                       !["apps"][app]["tools"] = Append(@, REGISTRATIONS[server["line"]]),
                       !["line"] = @ + 1]
    /\ UNCHANGED <<expense_store, planning_store, shopping_store, now, call, ret, tasks>>

\* The end of the module body.  if __name__ == "__main__": main(); the body that ran as
\* vienna_live_mcp.server is followed, under -m, by the same body as __main__, and
\* otherwise by the importer's call of main().
FinishModule ==
    /\ server["phase"] = "executing"
    /\ server["line"] = Len(REGISTRATIONS) + 1
    /\ server' = IF server["module"] = "vienna_live_mcp.server" /\ server["mode"] = "module"
                 THEN [server EXCEPT !["module"] = "__main__", !["line"] = 0]
                 ELSE [server EXCEPT !["phase"] = "main"]
    /\ UNCHANGED <<expense_store, planning_store, shopping_store, now, call, ret, tasks>>

\* main(): uvicorn.run("vienna_live_mcp.server:app", ...) serves the app of the module
\* of that name over HTTP; the other branch logs a line and returns.
Main ==
    /\ server["phase"] = "main"
    /\ IF parsed_transport(server["transport"]) = "http"
       THEN \E app \in {ItemOf(server["modules"], "vienna_live_mcp.server")} :
            \E started \in {enter_lifespan(server["apps"][app], server["db_fails"])} :
               server' = IF started["raised"]
                         THEN [server EXCEPT !["phase"] = "exited",
                                             !["log"] = @ \o started["calls"]]
                         ELSE [server EXCEPT !["phase"] = "serving",
                                             !["bound"] = @ \cup {<<"http", app>>},
                                             !["log"] = @ \o started["calls"]]
       ELSE server' = [server EXCEPT !["phase"] = "returned"]
    /\ UNCHANGED <<expense_store, planning_store, shopping_store, now, call, ret, tasks>>

\* The server stops serving.
Shutdown ==
    /\ server["phase"] = "serving"
    /\ \E b \in server["bound"] :
          server' = [server EXCEPT !["phase"] = "exited",
                                   !["log"] = @ \o exit_lifespan(server["apps"][b[2]])]
    /\ UNCHANGED <<expense_store, planning_store, shopping_store, now, call, ret, tasks>>

\* The names asked for: the five portmanteaus and three that are none of them.
PortmanteauNames ==
    {"shopping_manager", "travel_manager", "expenses_manager", "media_manager",
     "planning_manager", "invalid_portmanteau", "Shopping_Manager", ""}

GetServerStatus ==
    /\ server["phase"] = "serving"
    /\ get_server_status

GetPortmanteauInfo ==
    /\ server["phase"] = "serving"
    /\ \E portmanteau \in PortmanteauNames : get_portmanteau_info(portmanteau)

NextServer ==
    \/ Launch \/ CreateApp \/ RegisterTools \/ FinishModule \/ Main \/ Shutdown
    \/ GetServerStatus \/ GetPortmanteauInfo

SpecServer == Init /\ [][NextServer]_vars

\* The five portmanteau names, as get_server_status reports them.
KnownPortmanteaus ==
    {"shopping_manager", "travel_manager", "expenses_manager", "media_manager",
     "planning_manager"}

\* C24: get_portmanteau_info fails gracefully.  For a name that is none of the five
\* portmanteaus it returns a mapping with an "error" key and "available_portmanteaus"
\* listing exactly the five names, the list get_server_status reports under
\* "portmanteaus"; for each of the five names it returns a mapping without "error",
\* with the metadata of that portmanteau.
PortmanteauInfoGraceful ==
    [][/\ \A portmanteau \in PortmanteauNames :
             get_portmanteau_info(portmanteau)
             => IF portmanteau \in KnownPortmanteaus
                THEN /\ "error" \notin DOMAIN ret'
                     /\ {"description", "tools_count", "categories", "tools"}
                           \subseteq DOMAIN ret'
                     /\ \E n \in DOMAIN portmanteau_info :
                           /\ portmanteau_info[n][1] = portmanteau
                           /\ portmanteau_info[n][2] = ret'
                ELSE /\ "error" \in DOMAIN ret'
                     /\ "available_portmanteaus" \in DOMAIN ret'
                     /\ Len(ret'["available_portmanteaus"]) = 5
                     /\ {ret'["available_portmanteaus"][n] : n \in 1..5} = KnownPortmanteaus
                     /\ call["op"] = "get_server_status"
                        => ret'["available_portmanteaus"] = ret["portmanteaus"]
       /\ get_server_status
          => {ret'["portmanteaus"][n] : n \in DOMAIN ret'["portmanteaus"]}
                = KnownPortmanteaus]_vars

\* C24 witness: an unknown name was answered with the error and the five names, right
\* after get_server_status was asked.
UnknownPortmanteauAnswered ==
    /\ call["op"] = "get_portmanteau_info"
    /\ call["portmanteau"] = "invalid_portmanteau"
    /\ "error" \in DOMAIN ret
    /\ Len(ret["available_portmanteaus"]) = 5

\* C25: the metadata of every portmanteau is self-consistent: tools_count is the
\* number of names in its tools list.
ToolsCountMatchesTools ==
    (call["op"] = "get_portmanteau_info" /\ "error" \notin DOMAIN ret)
    => ret["tools_count"] = Len(ret["tools"])

\* C21: at startup each of the five registration functions is invoked exactly once,
\* all five against one and the same app, and all five have completed before main
\* runs and before the server serves.
RegisteredOnceOnOneApp ==
    server["phase"] \in {"main", "serving", "returned", "exited"}
    => /\ \A fn \in {REGISTRATIONS[n] : n \in DOMAIN REGISTRATIONS} :
             Cardinality({i \in DOMAIN server["invoked"] : server["invoked"][i][1] = fn}) = 1
       /\ Cardinality({server["invoked"][i][2] : i \in DOMAIN server["invoked"]}) = 1
       /\ Len(server["apps"]) = 1

\* C22: every launch of main binds the registry to exactly one transport, HTTP when
\* --transport http is given and stdio otherwise; never to both and never to none.
OneTransportBound ==
    server["phase"] \in {"serving", "returned", "exited"}
    => {b[1] : b \in server["bound"]} = {parsed_transport(server["transport"])}

\* C26: startup failure is surfaced and cleaned up.  The serving phase is entered only
\* after initialize_database and then initialize_clients ran, never when the store
\* initialization fails, and once the process has left main cleanup_resources has run
\* exactly once.
StartupFailureSurfaced ==
    LET ran(f) == Cardinality({i \in DOMAIN server["log"] : server["log"][i] = f})
    IN  /\ server["phase"] = "serving"
           => /\ ~server["db_fails"]
              /\ server["log"] = <<"initialize_database", "initialize_clients">>
        /\ server["phase"] \in {"returned", "exited"}
           => /\ ran("cleanup_resources") = 1
              /\ server["db_fails"] => ran("initialize_clients") = 0

----------------------------------------------------------------------------
(* The expense tools as coroutines of the event loop.                      *)
(* A tool handler is an async def; the loop runs a dispatched invocation    *)
(* until its next await, where another invocation may be resumed.           *)

MaxTasks == 3

\* An await between the read of the store and the write to it.
awaits_in_one(op) == 1

\* The number of await expressions in the body of the handler: none of add_expense,
\* update_expense and delete_expense contains one.
awaits_in(op) == 0

\* What an invocation of one of the three handlers makes of the expense list and what
\* it returns, at time t: <<expenses, result>>.
expense_effect(expenses, inv, t) ==
    CASE inv["op"] = "add_expense" ->
            LET expense == [id |-> "exp_" \o str(Len(expenses) + 1),
                            amount |-> inv["amount"],
                            description |-> inv["description"],
                            category |-> inv["category"],
                            date |-> IF Truthy(inv["date"]) THEN inv["date"] ELSE strftime(t),
                            store |-> inv["store"],
                            payment_method |-> inv["payment_method"],
                            created_at |-> isoformat(t)]
            IN  <<Append(expenses, expense),
                  [success |-> TRUE, expense |-> expense,
                   message |-> "Expense added successfully"]>>
      [] inv["op"] = "update_expense" ->
            LET i == first_with_id(expenses, inv["expense_id"])
                expense == SetKey(merge_allowed(expenses[i], inv["updates"],
                                                expense_allowed_fields),
                                  "updated_at", isoformat(t))
            IN  IF i = 0
                THEN <<expenses, Error("Expense " \o inv["expense_id"] \o " not found")>>
                ELSE <<[expenses EXCEPT ![i] = expense],
                       [success |-> TRUE, expense |-> expense,
                        message |-> "Expense " \o inv["expense_id"]
                                       \o " updated successfully"]>>
      [] inv["op"] = "delete_expense" ->
            LET i == first_with_id(expenses, inv["expense_id"])
            IN  IF refused(inv["confirm"])
                THEN <<expenses, Error("Deletion requires confirmation. Set confirm=true")>>
                ELSE IF i = 0
                THEN <<expenses, Error("Expense " \o inv["expense_id"] \o " not found")>>
                ELSE <<RemoveAt(expenses, i),
                       [success |-> TRUE,
                        message |-> "Expense " \o inv["expense_id"]
                                       \o " deleted successfully",
                        deleted_expense |-> [id |-> inv["expense_id"],
                                             amount |-> expenses[i]["amount"],
                                             description |-> expenses[i]["description"]]]>>

\* The invocations dispatched.
ConcurrentCalls ==
    { [op |-> "add_expense", amount |-> 10, description |-> "Groceries",
       category |-> "Food", date |-> None, store |-> None, payment_method |-> None],
      [op |-> "add_expense", amount |-> 25, description |-> "Groceries",
       category |-> "Bills", date |-> None, store |-> None, payment_method |-> None],
      [op |-> "update_expense", expense_id |-> "exp_1", updates |-> [amount |-> 25]],
      [op |-> "delete_expense", expense_id |-> "exp_1", confirm |-> TRUE] }

\* A client call arrives: the loop gets a new task for it.
Dispatch ==
    /\ Len(tasks) < MaxTasks
    /\ \E inv \in ConcurrentCalls :
          tasks' = Append(tasks, [inv |-> inv, pc |-> "ready", seen |-> <<>>,
                                  result |-> EmptyDict])
    /\ UNCHANGED <<expense_store, planning_store, shopping_store, now, call, ret, server>>

\* The loop resumes one of its tasks, whichever, and runs it to its next await or to
\* its end.  A handler without an await runs from its first statement to its return; a
\* handler that awaits after reading the store goes on, when resumed, with what it read.
Resume ==
    \E k \in DOMAIN tasks :
        /\ tasks[k]["pc"] # "done"
        /\ IF awaits_in(tasks[k]["inv"]["op"]) > 0 /\ tasks[k]["pc"] = "ready"
           THEN /\ tasks' = [tasks EXCEPT ![k]["pc"] = "suspended",
                                          ![k]["seen"] = MOCK_EXPENSES]
                /\ UNCHANGED <<MOCK_EXPENSES, call, ret>>
           ELSE \E effect \in {expense_effect(IF tasks[k]["pc"] = "suspended"
                                              THEN tasks[k]["seen"] ELSE MOCK_EXPENSES,
                                              tasks[k]["inv"], now)} :
                   /\ MOCK_EXPENSES' = effect[1]
                   /\ ret' = effect[2]
                   /\ call' = tasks[k]["inv"]
                   /\ tasks' = [tasks EXCEPT ![k]["pc"] = "done",
                                             ![k]["result"] = effect[2]]
        /\ UNCHANGED <<MOCK_BUDGETS, planning_store, shopping_store, now, server>>

NextConcurrent == Dispatch \/ Resume

SpecConcurrent == Init /\ [][NextConcurrent]_vars

\* The tasks that have returned.
DoneTasks == {k \in DOMAIN tasks : tasks[k]["pc"] = "done"}

\* The orders in which the tasks of D may have run one after the other.
Orders(D) ==
    {order \in [1..Cardinality(D) -> D] :
        \A i, j \in 1..Cardinality(D) : i # j => order[i] # order[j]}

\* The expense list after the invocations of the tasks order[n..] ran one after the
\* other, each one from its first statement to its return.
RECURSIVE run_serially(_, _, _)
run_serially(expenses, order, n) ==
    IF n > Len(order) THEN expenses
    ELSE run_serially(expense_effect(expenses, tasks[order[n]]["inv"], now)[1], order, n + 1)

\* Distinct ids in a list of records.
DistinctIds(s) == \A i, j \in DOMAIN s : s[i]["id"] = s[j]["id"] => i = j

\* C23: mutations of the expense store never interleave below the granularity of one
\* operation.  However the loop schedules the invocations dispatched, the store is at
\* every moment what the invocations that have returned make of the empty store when
\* they run in some serial order, and each has returned what it returns in that order;
\* invocations of add_expense alone leave as many records as there were invocations,
\* with distinct ids.
ExpenseCallsSerializable ==
    /\ \E order \in Orders(DoneTasks) :
          /\ MOCK_EXPENSES = run_serially(<<>>, order, 1)
          /\ \A n \in DOMAIN order :
                tasks[order[n]]["result"] =
                   expense_effect(run_serially(<<>>, SubSeq(order, 1, n - 1), 1),
                                  tasks[order[n]]["inv"], now)[2]
    /\ (\A k \in DOMAIN tasks : tasks[k]["inv"]["op"] = "add_expense")
       => /\ Len(MOCK_EXPENSES) = Cardinality(DoneTasks)
          /\ DistinctIds(MOCK_EXPENSES)

\* C23 witness: three invocations have returned, and the delete dispatched first found
\* the record of an add dispatched after it: the loop ran them in another order than
\* they were dispatched.
LaterAddRanFirst ==
    /\ Len(tasks) = MaxTasks
    /\ DoneTasks = DOMAIN tasks
    /\ tasks[1]["inv"]["op"] = "delete_expense"
    /\ ~IsError(tasks[1]["result"])
    /\ tasks[2]["inv"]["op"] = "add_expense"
    /\ tasks[3]["inv"]["op"] = "add_expense"
    /\ Len(MOCK_EXPENSES) = 1

\* The pure form of the three handlers is the handlers: whenever one of them serves a
\* call, the expense list and the return value are those of expense_effect.
EffectIsTheHandler ==
    [][call'["op"] \in {"add_expense", "update_expense", "delete_expense"}
       /\ <<MOCK_EXPENSES, call, ret>>' # <<MOCK_EXPENSES, call, ret>>
       => \E inv \in {IF call'["op"] = "add_expense"
                      THEN [op |-> "add_expense", amount |-> call'["amount"],
                            description |-> ret'["expense"]["description"],
                            category |-> call'["category"], date |-> call'["date"],
                            store |-> ret'["expense"]["store"],
                            payment_method |-> ret'["expense"]["payment_method"]]
                      ELSE call'} :
             <<MOCK_EXPENSES', ret'>> = expense_effect(MOCK_EXPENSES, inv, now)]_vars

====
